---------------------------- MODULE Spec2Model ----------------------------
(***************************************************************************)
(* Model of the group synchronisation engine of d4g-community-manager:     *)
(* libraries/group_sync_services.py (the two orchestrator entry points)    *)
(* and libraries/services/*.py (the five service reconcilers).             *)
(*                                                                         *)
(* Strings that the code takes apart (names, patterns, emails) are         *)
(* sequences of one-character strings; opaque strings (action tags,        *)
(* service names, user names, native ids) are TLA+ strings.                *)
(***************************************************************************)
EXTENDS Integers, Sequences, FiniteSets, TLC

(***************************************************************************)
(* Bounds                                                                  *)
(***************************************************************************)
\* number of consecutive runs of an entry point in one behaviour
MaxRuns == 2

(***************************************************************************)
(* Python values                                                           *)
(***************************************************************************)
\* Optional[str]: None, or a string (possibly empty)
None == [some |-> FALSE, val |-> <<>>]
Some(s) == [some |-> TRUE, val |-> s]
\* truthiness of an Optional[str]: None and "" are falsy
Truthy(o) == o.some /\ o.val # <<>>

StartsWith(s, p) == Len(s) >= Len(p) /\ SubSeq(s, 1, Len(p)) = p
EndsWith(s, p) == Len(s) >= Len(p) /\ SubSeq(s, Len(s) - Len(p) + 1, Len(s)) = p

\* str.lower() on the characters of the model's alphabet
LowerChar(c) ==
  CASE c = "A" -> "a"
    [] c = "M" -> "m"
    [] c = "X" -> "x"
    [] c = "Z" -> "z"
    [] OTHER -> c
Lower(s) == [i \in DOMAIN s |-> LowerChar(s[i])]

(***************************************************************************)
(* libraries/services/mattermost.py                                        *)
(***************************************************************************)
\* the "{base_name}" placeholder of a name pattern, one token of a pattern
BN == "{base_name}"

\* str.format(base_name=...): literal substitution of the placeholder
RECURSIVE Format(_, _)
Format(pattern, base_name) ==
  IF pattern = <<>> THEN <<>>
  ELSE (IF Head(pattern) = BN THEN base_name ELSE <<Head(pattern)>>)
       \o Format(Tail(pattern), base_name)

\* index of the first placeholder of a pattern, 0 when there is none
RECURSIVE FindBN(_, _)
FindBN(pattern, i) ==
  IF i > Len(pattern) THEN 0
  ELSE IF pattern[i] = BN THEN i ELSE FindBN(pattern, i + 1)

\* pattern.split("{base_name}")[0] and [1]
PatPrefix(pattern) == SubSeq(pattern, 1, FindBN(pattern, 1) - 1)
UpTo(rest, j) == IF j = 0 THEN rest ELSE SubSeq(rest, 1, j - 1)
UpToBN(rest) == UpTo(rest, FindBN(rest, 1))
PatSuffix(pattern) ==
  UpToBN(SubSeq(pattern, FindBN(pattern, 1) + 1, Len(pattern)))

\* a variant of the extraction that cuts the prefix only
BetweenPrefixOnly(actual_name, prefix, suffix) ==
  IF StartsWith(actual_name, prefix) /\ EndsWith(actual_name, suffix)
  THEN IF Len(actual_name) < Len(prefix) + Len(suffix) THEN None
       ELSE Some(SubSeq(actual_name, Len(prefix) + 1, Len(actual_name)))
  ELSE None
\* _extract_base_name(actual_name, pattern_with_placeholder)
Between(actual_name, prefix, suffix) ==
  IF StartsWith(actual_name, prefix) /\ EndsWith(actual_name, suffix)
  THEN IF Len(actual_name) < Len(prefix) + Len(suffix) THEN None
       ELSE Some(SubSeq(actual_name, Len(prefix) + 1,
                        Len(actual_name) - Len(suffix)))
  ELSE None
extract_base_name(actual_name, pattern) ==
  IF FindBN(pattern, 1) = 0 THEN None
  ELSE Between(actual_name, PatPrefix(pattern), PatSuffix(pattern))

\* characters that slugify keeps: [a-z0-9]
IsSlugAlnum(c) ==
  c \in {"a", "e", "g", "l", "m", "n", "s", "t", "u", "v", "x", "z"}

\* re.sub(r"[\s_]+", "-") then re.sub(r"[^a-z0-9-]+", "-") then
\* re.sub(r"-+", "-"): every run of characters outside [a-z0-9] becomes one "-"
OneHyphen(r) == IF r # <<>> /\ Head(r) = "-" THEN r ELSE <<"-">> \o r
RECURSIVE Hyphenate(_)
Hyphenate(s) ==
  IF s = <<>> THEN <<>>
  ELSE IF IsSlugAlnum(Head(s)) THEN <<Head(s)>> \o Hyphenate(Tail(s))
  ELSE OneHyphen(Hyphenate(Tail(s)))

\* str.strip("-")
RECURSIVE LStrip(_)
LStrip(s) == IF s # <<>> /\ Head(s) = "-" THEN LStrip(Tail(s)) ELSE s
RECURSIVE RStrip(_)
RStrip(s) ==
  IF s # <<>> /\ s[Len(s)] = "-" THEN RStrip(SubSeq(s, 1, Len(s) - 1)) ELSE s
Strip(s) == RStrip(LStrip(s))

\* Mattermost limit for a channel name
SlugMaxLen == 64
DefaultSlug == <<"default-channel-name">>

Truncate(t) == IF Len(t) > SlugMaxLen THEN Strip(SubSeq(t, 1, SlugMaxLen)) ELSE t
OrDefault(t) == IF t = <<>> \/ t = <<"-">> THEN DefaultSlug ELSE t
slugify(text) == OrDefault(Truncate(Strip(Hyphenate(Lower(text)))))


(***************************************************************************)
(* The world the engine runs in: configuration, users, resources           *)
(***************************************************************************)
Users == {"alice", "zed"}
\* a chat-platform account without email, known to no downstream service
Bot == "bot"
\* the order in which every listing API returns the users
UserOrder == <<"alice", "zed", Bot>>

\* email of a user's chat-platform account (alice's is capitalised there,
\* the bot has none)
MmEmail(u) ==
  IF u = "alice" THEN <<"A">> ELSE IF u = "zed" THEN <<"z">> ELSE <<>>
\* email of a user's account in every downstream service
SvcEmail(u) == IF u = "alice" THEN <<"a">> ELSE <<"z">>
\* email of a user's identity-provider account as it is stored there (zed's
\* is capitalised there)
AuthEmail(u) == IF u = "zed" THEN <<"Z">> ELSE SvcEmail(u)
\* a chat-platform user object: id, username, email
MmUser(u) == [id |-> u, username |-> u, email |-> MmEmail(u)]

\* the entity kinds of config.PERMISSIONS_MATRIX, in the order of the file,
\* and their blocks: every resource that exists is of the first kind; the
\* second kind has channel and group patterns only, and names that match them
\* can match a pattern of the first kind as well
EntityKey == "ANTENNE"
OtherKey == "PROJET"
MatrixOrder == <<EntityKey, OtherKey>>
Matrix ==
  [PROJET |->
    [standard |-> [mattermost_channel_name_pattern |-> <<BN, " ", "Z">>,
                   authentik_group_name_pattern |-> <<BN, "_", "z">>],
     admin |-> [mattermost_channel_name_pattern |-> <<"A", " ", BN, " ", "M", " ", "Z">>,
                authentik_group_name_pattern |-> <<"g", "_", BN, "_", "m", "_", "z">>]],
   ANTENNE |->
    [standard |-> [mattermost_channel_name_pattern |-> <<"A", " ", BN>>,
                   authentik_group_name_pattern |-> <<"g", "_", BN>>],
     admin |-> [mattermost_channel_name_pattern |-> <<"A", " ", BN, " ", "M">>,
                authentik_group_name_pattern |-> <<"g", "_", BN, "_", "m">>],
     outline |-> [collection_name_pattern |-> <<BN>>,
                  default_access |-> "read", admin_access |-> "read_write"],
     brevo |-> [list_name_pattern |-> <<"l", "_", BN>>],
     nocodb |-> [base_title_pattern |-> <<"n", "_", BN>>,
                 default_access |-> "viewer", admin_access |-> "owner"],
     vaultwarden |-> [collection_name_pattern |-> <<"v", "_", BN>>]]]

\* the resources that exist (one entity, base name "X")
BaseName == <<"X">>
StdChannel == [id |-> "c_std", name |-> <<"a", "-", "x">>,
               display_name |-> <<"A", " ", "X">>]
AdmChannel == [id |-> "c_adm", name |-> <<"a", "-", "x", "-", "m">>,
               display_name |-> <<"A", " ", "X", " ", "M">>]
MmChannels == <<StdChannel, AdmChannel>>
StdGroup == <<"g", "_", "X">>
AdmGroup == <<"g", "_", "X", "_", "m">>
GroupOrder == <<StdGroup, AdmGroup>>
OutlineColl == <<"X">>
BrevoList == <<"l", "_", "X">>
NocoBase == <<"n", "_", "X">>
VaultColl == <<"v", "_", "X">>

\* the services list built by both entry points, in order
Services == <<"AUTHENTIK", "OUTLINE", "BREVO", "NOCODB", "VAULTWARDEN">>
ServiceSet == {Services[i] : i \in DOMAIN Services}
\* SERVICE_NAME.lower(), the form skip_services uses
LowerName(svc) ==
  CASE svc = "AUTHENTIK" -> "authentik"
    [] svc = "OUTLINE" -> "outline"
    [] svc = "BREVO" -> "brevo"
    [] svc = "NOCODB" -> "nocodb"
    [] svc = "VAULTWARDEN" -> "vaultwarden"

\* the ways an external API can be failing during a behaviour: api names the
\* failing call, user the one user whose write fails ("*": not per user)
NoFault == [api |-> "none", user |-> "*"]
ListFaults ==
  {[api |-> a, user |-> "*"] :
     a \in {"mm_down", "dm", "auth_list", "outline_list", "outline_members",
            "outline_details", "brevo_list", "noco_list", "noco_users",
            "vw_details", "vw_cli", "vw_rc",
            "vw_members", "vw_token", "vw_put", "vw_creds"}}
WriteFaults ==
  {[api |-> a, user |-> u] :
     a \in {"auth_write", "outline_write", "brevo_write", "noco_write",
            "vw_invite"}, u \in Users}
Faults == {NoFault} \cup ListFaults \cup WriteFaults
\* the answers of the password service to the invitation of one user other
\* than 200: a 400 with one of four messages, or a 401
InviteFaults ==
  {[api |-> a, user |-> u] :
     a \in {"vw_400_member", "vw_400_invited", "vw_400_confirmed",
            "vw_400_other", "vw_401"}, u \in Users}

VARIABLES
  cfg,      \* the call and its configuration: entry, clients, skip, mm_client,
            \* team_id, excluded (config.EXCLUDED_USERS), fault
  chan,     \* chat platform: channel id -> set of members
  auth,     \* identity provider: group name -> set of member pks
  outline,  \* documentation collection: user -> permission ("none": no member)
  brevo,    \* contact list: set of contact emails
  nocodb,   \* database base: user -> role ("none": not a base user)
  vault,    \* password collection: set of user ids
  snap,     \* the downstream state when the current run started
  ctx,      \* the entry point's locals: entities, prefetched members, ...
  pc,       \* position of the entry point
  ent,      \* index of the entity being synchronised (upsert)
  svc,      \* index of the next service of the services list
  results,  \* detailed_results of the current run
  ops,      \* write calls issued on downstream services in the current run
  calls,    \* the reconcilers invoked in the current run, in order
  exc,      \* the reconciler whose call raised an exception ("": none)
  ret,      \* what the entry point returned
  run,      \* number of runs started
  probe,    \* a name pattern and a base name given to the pattern resolver,
            \* and what the resolver made of them
  pager     \* the identity provider's user directory in pages, and the loop
            \* of get_all_users_pk_by_email over it

vars == <<cfg, chan, auth, outline, brevo, nocodb, vault, snap, ctx, pc, ent,
          svc, results, ops, calls, exc, ret, run, probe, pager>>
world == <<cfg, chan, probe, pager>>
engine == <<cfg, chan, auth, outline, brevo, nocodb, vault, snap, ctx, pc, ent,
            svc, results, ops, calls, exc, ret, run>>
downstream == <<auth, outline, brevo, nocodb, vault>>

Fails(api) == cfg.fault.api = api
WriteFails(api, u) == cfg.fault.api = api /\ cfg.fault.user = u
Excluded(username) == username \in cfg.excluded

\* the members of a set of users as a list, in listing order
RECURSIVE ListOf(_, _)
ListOf(S, order) ==
  IF order = <<>> THEN <<>>
  ELSE (IF Head(order) \in S THEN <<Head(order)>> ELSE <<>>)
       \o ListOf(S, Tail(order))
Range(s) == {s[i] : i \in DOMAIN s}

\* left fold of Op over the sequence s: a loop over users that threads its
\* state
Fold(Op(_, _), acc, s) ==
  LET f[i \in 0..Len(s)] == IF i = 0 THEN acc ELSE Op(f[i - 1], s[i])
  IN f[Len(s)]
\* the same for a loop over resources, whose body loops over users
ForEach(Body(_, _), acc, s) ==
  LET f[i \in 0..Len(s)] == IF i = 0 THEN acc ELSE Body(f[i - 1], s[i])
  IN f[Len(s)]

(***************************************************************************)
(* Result records and the log of write calls                               *)
(***************************************************************************)
\* absent "mm_user_email" key of a record
NoSubject == <<"<absent>">>
\* "mm_user_email" of a user without email
NoEmailProvided == <<"NoEmailProvided">>
\* a result dictionary: username is "mm_username" ("" when the key is absent),
\* subject is "mm_user_email"
Rec(service, target, username, subject, status, action) ==
  [service |-> service, target |-> target, username |-> username,
   subject |-> subject, status |-> status, action |-> action]
\* a membership write call issued on a downstream resource: op is "add",
\* "update" or "remove"
OpRec(service, target, op, user) ==
  [service |-> service, target |-> target, op |-> op, user |-> user]

(***************************************************************************)
(* clients/mattermost_client.py, as the engine sees it                     *)
(***************************************************************************)
NoChannel == [id |-> "", name |-> <<>>, display_name |-> <<>>]
get_channels_for_team == IF Fails("mm_down") THEN <<>> ELSE MmChannels
get_channel_by_name(slug) ==
  IF Fails("mm_down") \/ \A i \in DOMAIN MmChannels : MmChannels[i].name # slug
  THEN NoChannel
  ELSE MmChannels[CHOOSE i \in DOMAIN MmChannels : MmChannels[i].name = slug]
UsersList(S) == [i \in DOMAIN ListOf(S, UserOrder) |-> MmUser(ListOf(S, UserOrder)[i])]
get_users_in_channel(channel_id) ==
  IF Fails("mm_down") \/ channel_id \notin DOMAIN chan THEN <<>>
  ELSE UsersList(chan[channel_id])
send_dm(user_id) == ~(Fails("mm_down") \/ Fails("dm"))


(***************************************************************************)
(* Name pattern resolution over the permissions matrix                     *)
(***************************************************************************)
\* (entity_key, base_name); (None, None) when nothing matches
NoMatch == [key |-> "", base |-> None]
\* "if entity_key and base_name": an empty base name is falsy
Mapped(m) == m.key # "" /\ Truthy(m.base)

\* the pattern of a block of an entity kind, <<>> when the kind has no such
\* block
PatternOf(k, block, field) ==
  IF block \in DOMAIN Matrix[k] THEN Matrix[k][block][field] ELSE <<>>
HasBlock(k, block) == block \in DOMAIN Matrix[k]

\* the base name a pattern extracts from a name, as a match of kind k
Try(k, name, pattern) ==
  IF pattern = <<>> THEN NoMatch
  ELSE [key |-> k, base |-> extract_base_name(name, pattern)]
Or(m, other) == IF m.base.some THEN m ELSE other

\* first entity kind, in matrix order, whose pattern of that block extracts a
\* base name from name
RECURSIVE FirstMatch(_, _, _, _)
FirstMatch(order, name, block, field) ==
  IF order = <<>> THEN NoMatch
  ELSE Or(Try(Head(order), name, PatternOf(Head(order), block, field)),
          FirstMatch(Tail(order), name, block, field))

\* a variant of the group lookup that tries the standard patterns first
map_auth_group_standard_first(auth_group_name) ==
  Or(FirstMatch(MatrixOrder, auth_group_name, "standard",
                "authentik_group_name_pattern"),
     FirstMatch(MatrixOrder, auth_group_name, "admin",
                "authentik_group_name_pattern"))

\* AuthentikService._map_auth_group_to_entity_and_base_name
map_auth_group_to_entity_and_base_name(auth_group_name) ==
  Or(FirstMatch(MatrixOrder, auth_group_name, "admin",
                "authentik_group_name_pattern"),
     FirstMatch(MatrixOrder, auth_group_name, "standard",
                "authentik_group_name_pattern"))

\* the per-service _map_<resource>_to_entity_and_base_name
map_outline_collection_to_entity_and_base_name(collection_name) ==
  FirstMatch(MatrixOrder, collection_name, "outline", "collection_name_pattern")
map_nocodb_base_to_entity_and_base_name(base_title) ==
  FirstMatch(MatrixOrder, base_title, "nocodb", "base_title_pattern")
map_vaultwarden_collection_to_entity_and_base_name(collection_name) ==
  FirstMatch(MatrixOrder, collection_name, "vaultwarden",
             "collection_name_pattern")

TestSlug == <<"t", "e", "s", "t", "-", "s", "l", "u", "g">>
\* the "simple pattern check" of the slug fallback
SimplePattern(pattern) ==
  slugify(Format(pattern, TestSlug)) = Lower(Format(pattern, TestSlug))
MmPattern(k, block) == PatternOf(k, block, "mattermost_channel_name_pattern")
TrySlug(k, slug, pattern) ==
  IF pattern # <<>> /\ SimplePattern(pattern) THEN Try(k, slug, Lower(pattern))
  ELSE NoMatch

\* the display-name pass: per kind, admin pattern, then standard pattern
RECURSIVE MapByDisplayName(_, _)
MapByDisplayName(order, display_name) ==
  IF order = <<>> THEN NoMatch
  ELSE Or(Try(Head(order), display_name, MmPattern(Head(order), "admin")),
          Or(Try(Head(order), display_name, MmPattern(Head(order), "standard")),
             MapByDisplayName(Tail(order), display_name)))

\* the slug pass
RECURSIVE MapBySlug(_, _)
MapBySlug(order, slug) ==
  IF order = <<>> THEN NoMatch
  ELSE Or(TrySlug(Head(order), slug, MmPattern(Head(order), "admin")),
          Or(TrySlug(Head(order), slug, MmPattern(Head(order), "standard")),
             MapBySlug(Tail(order), slug)))

\* _map_mm_channel_to_entity_and_base_name
map_mm_channel_to_entity_and_base_name(mm_channel_slug, mm_channel_display_name) ==
  Or(MapByDisplayName(MatrixOrder, mm_channel_display_name),
     MapBySlug(MatrixOrder, mm_channel_slug))

(***************************************************************************)
(* The authoritative membership of an entity                               *)
(***************************************************************************)
\* mm_users_for_services: email_lower -> {username, mm_user_id,
\* is_admin_channel_member}, as the list of its items in insertion order; a
\* later assignment to a key keeps the key's position and replaces its value
Put(d, email, val) ==
  IF \E i \in DOMAIN d : d[i].email = email
  THEN [i \in DOMAIN d |-> IF d[i].email = email THEN val ELSE d[i]]
  ELSE Append(d, val)
\* a variant of the membership in which the standard channel is read last, so
\* that a member of both channels keeps the standard flag
MembershipOfStandardLast(std_users, adm_users) ==
  LET Item(mm_user, flag) ==
        [email |-> Lower(mm_user.email), username |-> mm_user.username,
         mm_user_id |-> mm_user.id, is_admin_channel_member |-> flag]
      AddStd(d, mm_user) ==
        IF Lower(mm_user.email) # <<>>
        THEN Put(d, Lower(mm_user.email), Item(mm_user, FALSE)) ELSE d
      AddAdm(d, mm_user) ==
        IF Lower(mm_user.email) # <<>>
        THEN Put(d, Lower(mm_user.email), Item(mm_user, TRUE)) ELSE d
  IN Fold(AddStd, Fold(AddAdm, <<>>, adm_users), std_users)
MembershipOf(std_users, adm_users) ==
  LET AddStd(d, mm_user) ==
        LET email == Lower(mm_user.email)
        IN IF email # <<>>
           THEN Put(d, email, [email |-> email, username |-> mm_user.username,
                               mm_user_id |-> mm_user.id,
                               is_admin_channel_member |-> FALSE])
           ELSE d
      AddAdm(d, mm_user) ==
        LET email == Lower(mm_user.email)
        IN IF email # <<>>
           THEN Put(d, email, [email |-> email, username |-> mm_user.username,
                               mm_user_id |-> mm_user.id,
                               is_admin_channel_member |-> TRUE])
           ELSE d
  IN Fold(AddAdm, Fold(AddStd, <<>>, std_users), adm_users)

\* the members of a channel that was looked up, none when it was not found
MembersOf(ch, Members(_)) == IF ch.id # "" THEN Members(ch) ELSE <<>>
ChannelOf(pattern, base_name) ==
  get_channel_by_name(slugify(Format(pattern, base_name)))
UsersOf(std_users, adm_users) ==
  [mm_users_for_services |-> MembershipOf(std_users, adm_users),
   std |-> std_users, adm |-> adm_users]
\* channel members of an entity: the standard and the admin channel are looked
\* up by the slug of their rendered names; Members(channel) lists the members
EntityUsers(base_name, entity_config, Members(_)) ==
  UsersOf(MembersOf(ChannelOf(entity_config.standard.mattermost_channel_name_pattern,
                              base_name), Members),
          IF "admin" \in DOMAIN entity_config
          THEN MembersOf(ChannelOf(entity_config.admin.mattermost_channel_name_pattern,
                                   base_name), Members)
          ELSE <<>>)

\* Service.get_mm_users_for_entity: members come from the prefetched map
get_mm_users_for_entity(base_name, entity_config, all_mm_channel_members) ==
  EntityUsers(base_name, entity_config,
              LAMBDA ch : IF ch.id \in DOMAIN all_mm_channel_members
                          THEN all_mm_channel_members[ch.id] ELSE <<>>)

(***************************************************************************)
(* What a reconciler call has done so far: the records it collected, the   *)
(* write calls it issued, the membership of its service, and whether an    *)
(* exception left it                                                       *)
(***************************************************************************)
Begin(m) == [res |-> <<>>, ops |-> <<>>, m |-> m, raised |-> FALSE]
Emit(s, r) == [s EXCEPT !.res = Append(@, r)]
Issue(s, o) == [s EXCEPT !.ops = Append(@, o)]
Raise(s) == [s EXCEPT !.raised = TRUE]

\* {x["email"].lower() for x in users}
EmailsLower(users) == {Lower(users[i].email) : i \in DOMAIN users}
\* [x for x in users if x["email"].lower() not in emails]
Missing(users, emails) == SelectSeq(users, LAMBDA x : Lower(x.email) \notin emails)
\* the entity a resource name was mapped to
ConfigOf(mp) == Matrix[mp.key]

(***************************************************************************)
(* Identity provider: clients/authentik_client.py and                      *)
(* libraries/services/authentik.py                                         *)
(***************************************************************************)
AuthUser(u) == [pk |-> u, username |-> u, email |-> AuthEmail(u)]
\* an email -> pk dictionary is the set of its items; .get(email)
MapGet(map, email) ==
  IF \E e \in map : e.email = email
  THEN (CHOOSE e \in map : e.email = email).pk ELSE ""

\* AuthentikClient.get_groups_with_users: the groups, and the pk of every
\* user that is in some group keyed by that user's email as stored
get_groups_with_users(a) ==
  IF Fails("auth_list") THEN [groups |-> <<>>, map |-> {}]
  ELSE LET names == SelectSeq(GroupOrder, LAMBDA g : g \in DOMAIN a)
       IN [groups |-> [i \in DOMAIN names |->
                         [pk |-> names[i], name |-> names[i],
                          users |-> a[names[i]]]],
           map |-> {[email |-> AuthEmail(u), pk |-> u] :
                      u \in UNION {a[g] : g \in DOMAIN a}}]

\* AuthentikClient.get_all_users_pk_by_email, when it returns: the next page
\* URL is never empty, so the loop ends only in the error branch
get_all_users_pk_by_email == {}

\* the directory of all accounts, lower-cased email -> pk
AuthDirectory == {[email |-> Lower(AuthEmail(u)), pk |-> u] : u \in Users}

\* AuthentikClient.create_group
auth_create_group(a, name) ==
  IF name \in DOMAIN a \/ Fails("auth_list") THEN a
  ELSE [g \in DOMAIN a \cup {name} |-> IF g \in DOMAIN a THEN a[g] ELSE {}]

\* AuthentikService._ensure_users_in_authentik_group
ensure_users_in_authentik_group(st, auth_group_name, mm_users_to_ensure, email_to_authentik_user_pk_map, current_auth_user_pks_in_group) ==
  LET Step(s, mm_user) ==
        LET mm_user_email_lower == Lower(mm_user.email)
            subject == IF mm_user.email # <<>> THEN mm_user.email
                       ELSE NoEmailProvided
            R(status, action) ==
              Rec("AUTHENTIK", auth_group_name, mm_user.username, subject,
                  status, action)
            pk == MapGet(email_to_authentik_user_pk_map, mm_user_email_lower)
            add == OpRec("AUTHENTIK", auth_group_name, "add", pk)
        IN IF Excluded(mm_user.username) THEN s
           ELSE IF mm_user_email_lower = <<>>
           THEN Emit(s, R("SKIPPED", "SKIPPED_NO_MM_EMAIL_FOR_AUTHENTIK_ENSURE"))
           ELSE IF pk = ""
           THEN Emit(s, R("SKIPPED", "SKIPPED_USER_NOT_IN_AUTHENTIK_FOR_ENSURE"))
           ELSE IF pk \notin current_auth_user_pks_in_group
           THEN IF ~WriteFails("auth_write", pk)
                THEN [Issue(Emit(s, R("SUCCESS", "USER_ADDED_TO_AUTHENTIK_GROUP")), add)
                        EXCEPT !.m[auth_group_name] = @ \cup {pk}]
                ELSE Issue(Emit(s, R("FAILURE", "FAILED_TO_ADD_TO_AUTHENTIK_GROUP")), add)
           ELSE Emit(s, R("SUCCESS", "USER_ALREADY_IN_AUTHENTIK_GROUP"))
  IN Fold(Step, st, mm_users_to_ensure)

\* AuthentikService._sync_single_authentik_group
sync_single_authentik_group(st, auth_group_obj, mm_users_in_corresponding_channel, email_to_authentik_user_pk_map) ==
  IF auth_group_obj.pk = <<>> \/ auth_group_obj.name = <<>>
  THEN Emit(st, Rec("AUTHENTIK", auth_group_obj.name, "", NoSubject, "FAILURE",
                    "MISSING_GROUP_PK_OR_NAME"))
  ELSE ensure_users_in_authentik_group(st, auth_group_obj.name,
         mm_users_in_corresponding_channel, email_to_authentik_user_pk_map,
         auth_group_obj.users)

\* AuthentikService.remove_user_from_authentik_group
remove_user_from_authentik_group(s, group_name, user_pk, user_email) ==
  LET R(status, action) ==
        Rec("AUTHENTIK", group_name, "", user_email, status, action)
      rm == OpRec("AUTHENTIK", group_name, "remove", user_pk)
  IN IF ~WriteFails("auth_write", user_pk)
     THEN [Issue(Emit(s, R("SUCCESS", "USER_REMOVED_FROM_AUTHENTIK_GROUP")), rm)
             EXCEPT !.m[group_name] = @ \ {user_pk}]
     ELSE Issue(Emit(s, R("FAILURE", "FAILED_TO_REMOVE_FROM_AUTHENTIK_GROUP")), rm)

\* all_authentik_groups_by_name.get(name): the group object or no object
NoGroup == [pk |-> <<>>, name |-> <<>>, users |-> {}]
GroupByName(groups, name) ==
  IF \E i \in DOMAIN groups : groups[i].name = name
  THEN groups[CHOOSE i \in DOMAIN groups : groups[i].name = name] ELSE NoGroup

\* one group of AuthentikService.group_sync: a missing group is created, an
\* existing one is synchronised
AuthGroupUpsert(st, groups, name, mm_users, map) ==
  IF GroupByName(groups, name) = NoGroup
  THEN [st EXCEPT !.m = auth_create_group(@, name)]
  ELSE sync_single_authentik_group(st, GroupByName(groups, name), mm_users, map)

\* AuthentikService.group_sync
authentik_group_sync(st, base_name, entity_config, all_authentik_groups, std_mm_users_in_channel, adm_mm_users_in_channel) ==
  LET map == get_all_users_pk_by_email
      s1 == AuthGroupUpsert(st, all_authentik_groups,
              Format(entity_config.standard.authentik_group_name_pattern, base_name),
              std_mm_users_in_channel, map)
  IN IF "admin" \in DOMAIN entity_config
     THEN AuthGroupUpsert(s1, all_authentik_groups,
            Format(entity_config.admin.authentik_group_name_pattern, base_name),
            adm_mm_users_in_channel, map)
     ELSE s1

\* users_obj of a group
AuthUsersOf(group) ==
  [i \in DOMAIN ListOf(group.users, UserOrder) |->
     AuthUser(ListOf(group.users, UserOrder)[i])]
\* whether the group is the admin group of its entity
IsAdminGroup(group_name, entity_config) ==
  /\ "admin" \in DOMAIN entity_config
  /\ Truthy(extract_base_name(group_name,
                              entity_config.admin.authentik_group_name_pattern))
GroupUsers(eu, is_admin_group) == IF is_admin_group THEN eu.adm ELSE eu.std

\* the removal loop of AuthentikService.differential_sync
AuthRemoveLoop(s, group, mm_user_emails, auth_users) ==
  LET Remove(r, user) ==
        IF Lower(user.email) # <<>> /\ Lower(user.email) \notin mm_user_emails
        THEN IF Excluded(user.username) THEN r
             ELSE remove_user_from_authentik_group(r, group.name, user.pk,
                                                   Lower(user.email))
        ELSE r
  IN Fold(Remove, s, auth_users)
\* the addition of the channel members that the group lacks
AuthAddMissing(s, group, missing_mm_users, email_to_authentik_user_pk_map) ==
  IF missing_mm_users # <<>>
  THEN ensure_users_in_authentik_group(s, group.name, missing_mm_users,
                                       email_to_authentik_user_pk_map, {})
  ELSE s
\* one group: removals, then additions
AuthGroupDiff(s, group, mm_users_for_this_group, auth_users, map) ==
  AuthAddMissing(
    AuthRemoveLoop(s, group, EmailsLower(mm_users_for_this_group), auth_users),
    group,
    Missing(mm_users_for_this_group, EmailsLower(auth_users) \ {<<>>}),
    map)
AuthGroupStep(s, group, mp, map, mm_channel_members) ==
  IF ~Mapped(mp) THEN s
  ELSE AuthGroupDiff(s, group,
         GroupUsers(get_mm_users_for_entity(mp.base.val, ConfigOf(mp),
                                            mm_channel_members),
                    IsAdminGroup(group.name, ConfigOf(mp))),
         AuthUsersOf(group), map)
AuthGroupsLoop(st, gw, mm_channel_members) ==
  LET Step(s, group) ==
        AuthGroupStep(s, group, map_auth_group_to_entity_and_base_name(group.name),
                      gw.map, mm_channel_members)
  IN ForEach(Step, st, gw.groups)

\* AuthentikService.differential_sync
authentik_differential_sync(st, mm_channel_members) ==
  AuthGroupsLoop(st, get_groups_with_users(st.m), mm_channel_members)

(***************************************************************************)
(* Documentation service: clients/outline_client.py and                    *)
(* libraries/services/outline.py                                           *)
(***************************************************************************)
\* str.upper() of a permission or role name
Upper(x) ==
  CASE x = "read" -> "READ"
    [] x = "read_write" -> "READ_WRITE"
    [] x = "viewer" -> "VIEWER"
    [] x = "owner" -> "OWNER"
    [] OTHER -> x

\* id of the account with that email, "" when the user list of the service
\* holds none
outline_get_user_by_email(email) ==
  IF \E u \in Users : SvcEmail(u) = email /\ ~WriteFails("outline_user", u)
  THEN CHOOSE u \in Users : SvcEmail(u) = email ELSE ""
OutlineMembers(m) == {u \in Users : m[u] # "none"}

\* the DM suffix of a successful first addition
DmSuffix(details_ok, mm_user_id) ==
  IF ~details_ok THEN "_DM_SKIPPED_INCOMPLETE_COLL_DETAILS"
  ELSE IF send_dm(mm_user_id) THEN "_AND_DM_SENT" ELSE "_DM_FAILED"

\* a variant of the step below in which a user without account ends the call
AbortNotInOutline(s, skipped) == Raise(s)
\* "if not outline_user_api": the user is skipped with a record
SkipNotInOutline(s, skipped) == Emit(s, skipped)

\* OutlineService._ensure_users_in_outline_collection
ensure_users_in_outline_collection(st, collection_name, mm_users_for_permission, default_permission, admin_permission, current_outline_member_ids) ==
  LET Step(s, mm_user_data) ==
        LET R(status, action) ==
              Rec("OUTLINE", collection_name, mm_user_data.username,
                  mm_user_data.email, status, action)
            outline_user_id == outline_get_user_by_email(mm_user_data.email)
            permission_to_set ==
              IF mm_user_data.is_admin_channel_member THEN admin_permission
              ELSE default_permission
            is_already_member == outline_user_id \in current_outline_member_ids
            action_verb_prefix ==
              IF is_already_member
              THEN "USER_ALREADY_IN_OUTLINE_COLLECTION_PERMISSION_ENSURED"
              ELSE "USER_ADDED_TO_OUTLINE_COLLECTION_WITH_"
                   \o Upper(permission_to_set) \o "_ACCESS"
            current_action ==
              IF is_already_member THEN action_verb_prefix
              ELSE action_verb_prefix
                   \o DmSuffix(~Fails("outline_details"), mm_user_data.mm_user_id)
            verb_failed == IF is_already_member
                           THEN "FAILED_TO_UPDATE_OUTLINE_PERMISSION"
                           ELSE "FAILED_TO_ADD_TO_OUTLINE_COLLECTION"
            call == OpRec("OUTLINE", collection_name,
                          IF is_already_member THEN "update" ELSE "add",
                          outline_user_id)
        IN IF Excluded(mm_user_data.username) THEN s
           ELSE IF outline_user_id = ""
           THEN SkipNotInOutline(s, R("SKIPPED", "SKIPPED_USER_NOT_IN_OUTLINE_FOR_ENSURE"))
           ELSE IF ~WriteFails("outline_write", outline_user_id)
           THEN [Issue(Emit(s, R("SUCCESS", current_action)), call)
                   EXCEPT !.m[outline_user_id] = permission_to_set]
           ELSE Issue(Emit(s, R("FAILURE", verb_failed)), call)
  IN Fold(Step, st, mm_users_for_permission)

\* OutlineService._sync_single_outline_collection
sync_single_outline_collection(st, collection_name, mm_users_for_permission, default_permission, admin_permission) ==
  IF Fails("outline_list")
  THEN Emit(st, Rec("OUTLINE", collection_name, "", NoSubject, "FAILURE",
                    "FAILED_TO_ENSURE_OUTLINE_COLLECTION"))
  ELSE ensure_users_in_outline_collection(st, collection_name,
         mm_users_for_permission, default_permission, admin_permission,
         IF Fails("outline_members") THEN {} ELSE OutlineMembers(st.m))

\* OutlineService._remove_user_from_outline_collection
remove_user_from_outline_collection(s, collection_name, user_id, user_email) ==
  LET R(status, action) ==
        Rec("OUTLINE", collection_name, "", user_email, status, action)
      rm == OpRec("OUTLINE", collection_name, "remove", user_id)
  IN IF ~WriteFails("outline_write", user_id)
     THEN [Issue(Emit(s, R("SUCCESS", "USER_REMOVED_FROM_OUTLINE_COLLECTION")), rm)
             EXCEPT !.m[user_id] = "none"]
     ELSE Issue(Emit(s, R("FAILURE", "FAILED_TO_REMOVE_FROM_OUTLINE_COLLECTION")), rm)

\* OutlineService.group_sync, entered with its own nine arguments
outline_group_sync(st, base_name, entity_config, mm_users_for_services) ==
  IF "outline" \notin DOMAIN entity_config THEN st
  ELSE sync_single_outline_collection(st,
         Format(entity_config.outline.collection_name_pattern, base_name),
         mm_users_for_services, entity_config.outline.default_access,
         entity_config.outline.admin_access)

\* get_collection_members_with_details
OutlineUsersOf(m) ==
  [i \in DOMAIN ListOf(OutlineMembers(m), UserOrder) |->
     [id |-> ListOf(OutlineMembers(m), UserOrder)[i],
      email |-> SvcEmail(ListOf(OutlineMembers(m), UserOrder)[i])]]
\* the removal loop of OutlineService.differential_sync
OutlineRemoveLoop(s, collection_name, mm_user_emails, outline_users) ==
  LET Remove(r, user) ==
        IF Lower(user.email) # <<>> /\ Lower(user.email) \notin mm_user_emails
        THEN remove_user_from_outline_collection(r, collection_name, user.id,
                                                 Lower(user.email))
        ELSE r
  IN Fold(Remove, s, outline_users)
\* the addition of the channel members that the collection lacks
OutlineAddMissing(s, collection_name, missing, outline_cfg) ==
  IF missing # <<>>
  THEN ensure_users_in_outline_collection(s, collection_name, missing,
         outline_cfg.default_access, outline_cfg.admin_access, {})
  ELSE s
\* a variant of the body of OutlineService.differential_sync that adds the
\* missing members before it removes the others
OutlineCollectionDiffAddFirst(s, collection_name, mm_users_for_services, outline_users, outline_cfg) ==
  OutlineRemoveLoop(
    OutlineAddMissing(s, collection_name,
      Missing(mm_users_for_services, EmailsLower(outline_users) \ {<<>>}),
      outline_cfg),
    collection_name, EmailsLower(mm_users_for_services), outline_users)

\* one collection: removals, then additions
OutlineCollectionDiff(s, collection_name, mm_users_for_services, outline_users, outline_cfg) ==
  OutlineAddMissing(
    OutlineRemoveLoop(s, collection_name, EmailsLower(mm_users_for_services),
                      outline_users),
    collection_name,
    Missing(mm_users_for_services, EmailsLower(outline_users) \ {<<>>}),
    outline_cfg)
OutlineCollectionStep(s, collection, mp, mm_channel_members) ==
  IF s.raised \/ ~Mapped(mp) THEN s
  \* the member listing failed: iterating None raises TypeError
  ELSE IF Fails("outline_members") THEN Raise(s)
  ELSE OutlineCollectionDiff(s, collection.name,
         get_mm_users_for_entity(mp.base.val, ConfigOf(mp),
                                 mm_channel_members).mm_users_for_services,
         OutlineUsersOf(s.m), ConfigOf(mp).outline)

\* OutlineService.differential_sync
outline_differential_sync(st, mm_channel_members) ==
  LET Step(s, collection) ==
        OutlineCollectionStep(s, collection,
          map_outline_collection_to_entity_and_base_name(collection.name),
          mm_channel_members)
  IN ForEach(Step, st,
             IF Fails("outline_list") THEN <<>> ELSE <<[name |-> OutlineColl]>>)

(***************************************************************************)
(* Mailing service: clients/brevo_client.py and libraries/services/brevo.py *)
(***************************************************************************)
\* BrevoService._ensure_contacts_in_brevo_list; the list stores a contact
\* under its lower-cased email
ensure_contacts_in_brevo_list(st, list_name, mm_users_to_ensure) ==
  LET Step(s, mm_user) ==
        LET subject == IF mm_user.email # <<>> THEN mm_user.email
                       ELSE NoEmailProvided
            R(status, action) ==
              Rec("BREVO", list_name, mm_user.username, subject, status, action)
            call == OpRec("BREVO", list_name, "add", mm_user.id)
        IN IF Excluded(mm_user.username) THEN s
           ELSE IF mm_user.email = <<>>
           THEN Emit(s, R("SKIPPED", "SKIPPED_NO_MM_EMAIL_FOR_BREVO_ENSURE"))
           ELSE IF ~WriteFails("brevo_write", mm_user.id)
           THEN [Issue(Emit(s, R("SUCCESS", "USER_ENSURED_IN_BREVO_LIST")), call)
                   EXCEPT !.m = @ \cup {Lower(mm_user.email)}]
           ELSE Issue(Emit(s, R("FAILURE", "FAILED_TO_ENSURE_IN_BREVO_LIST")), call)
  IN Fold(Step, st, mm_users_to_ensure)

\* BrevoService._sync_single_brevo_list
sync_single_brevo_list(st, brevo_list_name, mm_users_in_channel) ==
  IF Fails("brevo_list")
  THEN Emit(st, Rec("BREVO", brevo_list_name, "", NoSubject, "FAILURE",
                    "FAILED_TO_ENSURE_BREVO_LIST"))
  ELSE ensure_contacts_in_brevo_list(st, brevo_list_name, mm_users_in_channel)

\* BrevoService.group_sync: the members of the standard channel only
brevo_group_sync(st, base_name, entity_config, std_mm_users_in_channel) ==
  IF "brevo" \notin DOMAIN entity_config THEN st
  ELSE sync_single_brevo_list(st,
         Format(entity_config.brevo.list_name_pattern, base_name),
         std_mm_users_in_channel)

\* BrevoService.differential_sync
brevo_differential_sync(st, mm_channel_members) == st

(***************************************************************************)
(* Database service: clients/nocodb_client.py and                          *)
(* libraries/services/nocodb.py                                            *)
(***************************************************************************)
\* NocoDBClient.list_base_users: a user whose role was set to "no-access"
\* stays a user of the base
list_base_users(m) ==
  IF Fails("noco_users") THEN <<>>
  ELSE LET ids == ListOf({u \in Users : m[u] # "none"}, UserOrder)
       IN [i \in DOMAIN ids |->
             [id |-> ids[i], email |-> SvcEmail(ids[i]), roles |-> m[ids[i]]]]
NocoMembers(m) == {u \in Users : m[u] \notin {"none", "no-access"}}
\* the account a NocoDB invitation by email lands on
NocoUserOf(email) == CHOOSE u \in Users : Lower(SvcEmail(u)) = email

\* NocoDBService._ensure_users_in_nocodb_base
ensure_users_in_nocodb_base(st, base_title, mm_users_for_permission, default_permission, admin_permission, current_nocodb_users) ==
  LET Step(s, mm_user_data) ==
        LET email_lower == mm_user_data.email
            R(status, action) ==
              Rec("NOCODB", base_title, mm_user_data.username, email_lower,
                  status, action)
            target_role ==
              IF mm_user_data.is_admin_channel_member THEN admin_permission
              ELSE default_permission
            exists == \E i \in DOMAIN current_nocodb_users :
                        Lower(current_nocodb_users[i].email) = email_lower
            existing_nocodb_user ==
              current_nocodb_users[CHOOSE i \in DOMAIN current_nocodb_users :
                Lower(current_nocodb_users[i].email) = email_lower]
            action_verb == "NOCODB_USER_INVITED_AS_" \o Upper(target_role)
        IN IF Excluded(mm_user_data.username) THEN s
           ELSE IF exists
           THEN IF existing_nocodb_user.roles # target_role
                THEN LET call == OpRec("NOCODB", base_title, "update",
                                       existing_nocodb_user.id)
                     IN IF ~WriteFails("noco_write", existing_nocodb_user.id)
                        THEN [Issue(Emit(s, R("SUCCESS",
                                "NOCODB_USER_ROLE_UPDATED_TO_" \o Upper(target_role))),
                                call)
                                EXCEPT !.m[existing_nocodb_user.id] = target_role]
                        ELSE Issue(Emit(s, R("FAILURE",
                               "FAILED_TO_UPDATE_NOCODB_USER_ROLE")), call)
                ELSE Emit(s, R("SUCCESS",
                               "NOCODB_USER_ALREADY_IN_BASE_WITH_CORRECT_ROLE"))
           ELSE LET u == NocoUserOf(email_lower)
                    call == OpRec("NOCODB", base_title, "add", u)
                IN IF ~WriteFails("noco_write", u)
                   THEN [Issue(Emit(s, R("SUCCESS",
                           action_verb \o (IF send_dm(mm_user_data.mm_user_id)
                                           THEN "_AND_DM_SENT" ELSE "_DM_FAILED"))),
                           call)
                           EXCEPT !.m[u] = target_role]
                   ELSE Issue(Emit(s, R("FAILURE", "FAILED_TO_INVITE_NOCODB_USER")),
                              call)
  IN Fold(Step, st, mm_users_for_permission)

\* NocoDBService._remove_user_from_nocodb_base
remove_user_from_nocodb_base(s, base_title, user_id, user_email) ==
  LET R(status, action) ==
        Rec("NOCODB", base_title, "", user_email, status, action)
      rm == OpRec("NOCODB", base_title, "remove", user_id)
  IN IF ~WriteFails("noco_write", user_id)
     THEN [Issue(Emit(s, R("SUCCESS", "NOCODB_USER_REMOVED_FROM_BASE")), rm)
             EXCEPT !.m[user_id] = "no-access"]
     ELSE Issue(Emit(s, R("FAILURE", "FAILED_TO_REMOVE_NOCODB_USER")), rm)

\* a variant of _sync_single_nocodb_base that also withdraws the access of the
\* users of the base that the channels do not hold
sync_single_nocodb_base_pruning(st, base_title_pattern, entity_base_name, mm_users_for_permission, default_permission, admin_permission) ==
  LET Prune(r, user) ==
        IF Lower(user.email) \notin EmailsLower(mm_users_for_permission)
        THEN remove_user_from_nocodb_base(r, NocoBase, user.id, Lower(user.email))
        ELSE r
  IN IF Fails("noco_list")
        \/ Format(base_title_pattern, entity_base_name) # NocoBase
     THEN st
     ELSE Fold(Prune,
               ensure_users_in_nocodb_base(st, NocoBase, mm_users_for_permission,
                 default_permission, admin_permission, list_base_users(st.m)),
               list_base_users(st.m))

\* NocoDBService._sync_single_nocodb_base
sync_single_nocodb_base(st, base_title_pattern, entity_base_name, mm_users_for_permission, default_permission, admin_permission) ==
  LET nocodb_base_title == Format(base_title_pattern, entity_base_name)
  IN IF Fails("noco_list") \/ nocodb_base_title # NocoBase
     THEN Emit(st, Rec("NOCODB", nocodb_base_title, "", NoSubject, "SKIPPED",
                       "SKIPPED_NOCODB_BASE_NOT_FOUND"))
     ELSE ensure_users_in_nocodb_base(st, nocodb_base_title,
            mm_users_for_permission, default_permission, admin_permission,
            list_base_users(st.m))

\* NocoDBService.group_sync
nocodb_group_sync(st, base_name, entity_config, mm_users_for_services, entity_key) ==
  IF "nocodb" \notin DOMAIN entity_config THEN st
  ELSE IF entity_key \notin {"ANTENNE", "POLES"} THEN st
  ELSE sync_single_nocodb_base(st, entity_config.nocodb.base_title_pattern,
         base_name, mm_users_for_services, entity_config.nocodb.default_access,
         entity_config.nocodb.admin_access)

\* the removal loop of NocoDBService.differential_sync
NocoRemoveLoop(s, base_title, mm_user_emails, nocodb_users) ==
  LET Remove(r, user) ==
        IF Lower(user.email) # <<>> /\ Lower(user.email) \notin mm_user_emails
        THEN remove_user_from_nocodb_base(r, base_title, user.id,
                                          Lower(user.email))
        ELSE r
  IN Fold(Remove, s, nocodb_users)
\* the invitation of the channel members that the base lacks
NocoAddMissing(s, base_title, missing, nocodb_cfg) ==
  IF missing # <<>>
  THEN ensure_users_in_nocodb_base(s, base_title, missing,
         nocodb_cfg.default_access, nocodb_cfg.admin_access, <<>>)
  ELSE s
\* one base: removals, then invitations
NocoBaseDiff(s, base_title, mm_users_for_services, nocodb_users, nocodb_cfg) ==
  NocoAddMissing(
    NocoRemoveLoop(s, base_title, EmailsLower(mm_users_for_services),
                   nocodb_users),
    base_title,
    Missing(mm_users_for_services, EmailsLower(nocodb_users) \ {<<>>}),
    nocodb_cfg)
NocoBaseStep(s, base, mp, mm_channel_members) ==
  IF ~Mapped(mp) THEN s
  ELSE NocoBaseDiff(s, base.title,
         get_mm_users_for_entity(mp.base.val, ConfigOf(mp),
                                 mm_channel_members).mm_users_for_services,
         list_base_users(s.m), ConfigOf(mp).nocodb)

\* NocoDBService.differential_sync
nocodb_differential_sync(st, mm_channel_members) ==
  LET Step(s, base) ==
        NocoBaseStep(s, base, map_nocodb_base_to_entity_and_base_name(base.title),
                     mm_channel_members)
  IN ForEach(Step, st,
             IF Fails("noco_list") THEN <<>> ELSE <<[title |-> NocoBase]>>)

(***************************************************************************)
(* Password service: clients/vaultwarden_client.py and                     *)
(* libraries/services/vaultwarden.py                                       *)
(***************************************************************************)
\* VaultwardenClient._get_api_token: "" when no token could be obtained
get_api_token == IF Fails("vw_token") THEN "" ELSE "token"
\* the account a Vaultwarden invitation by email lands on
VaultUserOf(email) == CHOOSE u \in Users : Lower(SvcEmail(u)) = email

\* a message of an error response is the sequence of its words; str.lower()
\* on the words of the messages
LowerWord(w) ==
  CASE w = "Already" -> "already"
    [] w = "User" -> "user"
    [] OTHER -> w
LowerWords(message) == [i \in DOMAIN message |-> LowerWord(message[i])]
\* phrase in message
Contains(message, phrase) ==
  \E i \in 1..(Len(message) - Len(phrase) + 1) :
    SubSeq(message, i, i + Len(phrase) - 1) = phrase
already_member_messages ==
  << <<"already", "a", "member">>,
     <<"user", "already", "invited">>,
     <<"is", "already", "a", "member">>,
     <<"already", "in", "this", "collection">>,
     <<"user", "is", "already", "confirmed">> >>
\* the response to the POST that invites u: status and errorModel.message
InviteResponse(u) ==
  IF cfg.fault.user # u THEN [status |-> 200, message |-> <<>>]
  ELSE CASE cfg.fault.api = "vw_400_member" ->
              [status |-> 400,
               message |-> <<"User", "is", "Already", "a", "member">>]
         [] cfg.fault.api = "vw_400_invited" ->
              [status |-> 400, message |-> <<"Already", "invited">>]
         [] cfg.fault.api = "vw_400_confirmed" ->
              [status |-> 400, message |-> <<"Already", "confirmed">>]
         [] cfg.fault.api = "vw_400_other" ->
              [status |-> 400, message |-> <<"invalid", "email">>]
         [] cfg.fault.api = "vw_401" -> [status |-> 401, message |-> <<>>]
         [] cfg.fault.api = "vw_invite" -> [status |-> 500, message |-> <<>>]
         [] OTHER -> [status |-> 200, message |-> <<>>]
\* is_idempotent_condition_met of a response
IsIdempotent(response) ==
  /\ response.status = 400
  /\ \E i \in DOMAIN already_member_messages :
       Contains(LowerWords(response.message), already_member_messages[i])
\* VaultwardenClient.invite_user_to_collection: one POST, whatever its answer
invite_user_to_collection(response) ==
  response.status = 200 \/ IsIdempotent(response)

\* VaultwardenService._ensure_users_invited_to_vaultwarden_collection; the
\* client's invite reports success for a new invitation and for a user that
\* already is a member alike
ensure_users_invited_to_vaultwarden_collection(st, collection_name, mm_users_for_services, access_token) ==
  LET Step(s, mm_user_data) ==
        LET email_lower == mm_user_data.email
            R(status, action) ==
              Rec("VAULTWARDEN", collection_name, mm_user_data.username,
                  email_lower, status, action)
            u == VaultUserOf(email_lower)
            call == OpRec("VAULTWARDEN", collection_name, "add", u)
        IN IF Excluded(mm_user_data.username) THEN s
           ELSE IF email_lower = <<>>
           THEN Emit(s, R("SKIPPED", "SKIPPED_NO_EMAIL_FOR_VW_INVITE"))
           ELSE IF invite_user_to_collection(InviteResponse(u))
           THEN [Issue(Emit(s, R("SUCCESS",
                   IF send_dm(mm_user_data.mm_user_id)
                   THEN "USER_INVITED_TO_VW_COLLECTION_AND_DM_SENT"
                   ELSE "USER_INVITED_TO_VW_COLLECTION_DM_FAILED")), call)
                   EXCEPT !.m = @ \cup (IF InviteResponse(u).status = 200
                                        THEN {u} ELSE {})]
           ELSE Issue(Emit(s, R("FAILURE", "FAILED_TO_INVITE_TO_VW_COLLECTION")),
                      call)
  IN IF access_token = ""
     THEN Emit(st, Rec("VAULTWARDEN", collection_name, "", NoSubject, "FAILURE",
                       "VW_ENSURE_FAILED_NO_TOKEN"))
     ELSE Fold(Step, st, mm_users_for_services)

\* VaultwardenService._sync_single_vaultwarden_collection_members
sync_single_vaultwarden_collection_members(st, collection_name, mm_users_for_services) ==
  LET R(status, action) ==
        Rec("VAULTWARDEN", collection_name, "", NoSubject, status, action)
  IN IF Fails("vw_creds") THEN Emit(st, R("SKIPPED", "SKIPPED_MISSING_API_CREDENTIALS"))
     ELSE IF Fails("vw_cli") \/ Fails("vw_rc") \/ collection_name # VaultColl
     THEN Emit(st, R("SKIPPED", "SKIPPED_VW_COLLECTION_NOT_FOUND"))
     ELSE IF get_api_token = ""
     THEN Emit(st, R("FAILURE", "FAILED_TO_GET_VW_API_TOKEN"))
     ELSE ensure_users_invited_to_vaultwarden_collection(st, collection_name,
            mm_users_for_services, get_api_token)

\* VaultwardenService.group_sync, entered with its own nine arguments
vaultwarden_group_sync(st, base_name, entity_config, mm_users_for_services) ==
  IF "vaultwarden" \notin DOMAIN entity_config THEN st
  ELSE sync_single_vaultwarden_collection_members(st,
         Format(entity_config.vaultwarden.collection_name_pattern, base_name),
         mm_users_for_services)

\* get_email_from_members of every member of the collection: the members
\* whose email could be resolved
VaultResolved(users) ==
  IF Fails("vw_members") THEN <<>>
  ELSE [i \in DOMAIN users |-> [id |-> users[i], email |-> SvcEmail(users[i])]]
\* users_to_keep
VaultKeep(resolved, mm_user_emails) ==
  SelectSeq(resolved, LAMBDA v : v.email \in mm_user_emails)
\* the PUT of the collection when a member is to be dropped
VaultPut(s, collection_name, users, users_to_keep) ==
  IF Len(users_to_keep) # Len(users)
  THEN IF ~(Fails("vw_put") \/ Fails("vw_token"))
       THEN [Issue(Emit(s, Rec("VAULTWARDEN", collection_name, "", NoSubject,
                               "SUCCESS",
                               "USER_REMOVED_FROM_VAULTWARDEN_COLLECTION")),
                   OpRec("VAULTWARDEN", collection_name, "remove", "*"))
               EXCEPT !.m = {users_to_keep[i].id : i \in DOMAIN users_to_keep}]
       ELSE Issue(Emit(s, Rec("VAULTWARDEN", collection_name, "", NoSubject,
                              "FAILURE",
                              "FAILED_TO_REMOVE_FROM_VAULTWARDEN_COLLECTION")),
                  OpRec("VAULTWARDEN", collection_name, "remove", "*"))
  ELSE s
\* the invitation of the channel members that the collection lacks
VaultAddMissing(s, collection_name, missing) ==
  IF missing # <<>>
  THEN ensure_users_invited_to_vaultwarden_collection(s, collection_name,
                                                      missing, get_api_token)
  ELSE s
\* one collection: the PUT, then invitations
VaultCollectionDiff(s, collection_name, users, mm_users_for_services, resolved) ==
  VaultAddMissing(
    VaultPut(s, collection_name, users,
             VaultKeep(resolved, EmailsLower(mm_users_for_services))),
    collection_name,
    SelectSeq(mm_users_for_services,
              LAMBDA d : d.email \notin {resolved[i].email : i \in DOMAIN resolved}))
VaultCollectionStep(s, collection, mp, mm_channel_members) ==
  IF ~Mapped(mp) THEN s
  ELSE VaultCollectionDiff(s, collection.name, collection.users,
         get_mm_users_for_entity(mp.base.val, ConfigOf(mp),
                                 mm_channel_members).mm_users_for_services,
         VaultResolved(collection.users))

\* VaultwardenService.differential_sync
vaultwarden_differential_sync(st, mm_channel_members) ==
  LET Step(s, collection) ==
        VaultCollectionStep(s, collection,
          map_vaultwarden_collection_to_entity_and_base_name(collection.name),
          mm_channel_members)
  IN IF Fails("vw_token") \/ Fails("vw_details") THEN st
     \* no CLI session: unpacking None raises TypeError; a failed listing
     \* leaves the collection name None, whose startswith raises AttributeError
     ELSE IF Fails("vw_cli") \/ Fails("vw_rc") THEN Raise(st)
     ELSE ForEach(Step, st,
                  <<[name |-> VaultColl, users |-> ListOf(st.m, UserOrder)]>>)

(***************************************************************************)
(* The initial states: a world, and the call made on it                    *)
(***************************************************************************)
\* who is in the two channels (bot: the account without email is in the
\* standard channel), who is a member downstream (pre: the standard group and
\* every other resource; preAdm: the admin group, when it exists), and who is
\* excluded
Worlds ==
  {w \in [std : SUBSET Users, adm : SUBSET Users, pre : SUBSET Users,
          preAdm : SUBSET Users, admExists : BOOLEAN,
          excluded : {{}, {"zed"}}, bot : BOOLEAN] :
     /\ w.preAdm \in {{}, w.pre}
     /\ ~w.admExists => w.preAdm = {}
     /\ w.bot => (w.adm = {} /\ w.excluded = {} /\ w.admExists
                  /\ w.preAdm = w.pre)}
SmallWorlds ==
  {w \in Worlds : w.std = {"alice"} /\ w.adm = {} /\ w.excluded = {}
                  /\ w.pre \in {{}, {"zed"}} /\ w.admExists}
FaultWorlds ==
  {w \in Worlds : /\ ~w.bot
                  /\ w.std \in {{}, {"alice"}}
                  /\ w.adm \in {{}, {"alice"}}
                  /\ w.pre \in {{}, {"zed"}, Users}
                  /\ w.preAdm = w.pre /\ w.admExists}

\* both users are in the standard channel and nobody is a member downstream
AbsentWorlds ==
  {w \in Worlds : /\ ~w.bot /\ w.std = Users /\ w.adm \in {{}, {"zed"}}
                  /\ w.pre = {} /\ w.admExists /\ w.excluded = {}}
\* alice, or both users, in the standard channel; alice is a member
\* downstream or nobody is
InviteWorlds ==
  {w \in Worlds : /\ ~w.bot /\ w.std \in {{"alice"}, Users} /\ w.adm = {}
                  /\ w.pre \in {{}, {"alice"}} /\ w.preAdm = w.pre
                  /\ w.admExists /\ w.excluded = {}}
\* one user has no account in the documentation service
AbsentFaults == {[api |-> "outline_user", user |-> u] : u \in Users}

AllClients == {LowerName(x) : x \in ServiceSet}
Entries == {"WITH_AUTHENTIK", "MM_TO_TOOLS", "DIFF", "SINGLE"}
Call(entry, clients, skip, mm_client, team_id, fault) ==
  [entry |-> entry, clients |-> clients, skip |-> skip,
   mm_client |-> mm_client, team_id |-> team_id, fault |-> fault]
\* the reconcilers whose upsert the entry point cannot call
NineArgs == {"outline", "vaultwarden"}

Starts ==
  \* every world, every client configured, nothing failing
  (Worlds \X {Call(e, AllClients, k, TRUE, TRUE, NoFault) :
                e \in Entries, k \in {{}, NineArgs}})
  \cup
  \* any set of configured clients and some sets of skipped services
  (SmallWorlds \X {Call(e, c, k, TRUE, TRUE, NoFault) :
                     e \in Entries, c \in SUBSET AllClients,
                     k \in {{}, NineArgs, {"authentik"},
                            {"authentik", "brevo", "nocodb"}}})
  \cup
  \* one failing external call
  (FaultWorlds \X {Call(e, AllClients, NineArgs, TRUE, TRUE, f) :
                     e \in {"MM_TO_TOOLS", "DIFF"}, f \in Faults \ {NoFault}})
  \cup
  (FaultWorlds \X {Call("SINGLE", AllClients, {}, TRUE, TRUE, f) :
                     f \in Faults \ {NoFault}})
  \cup
  \* a user of the chat platform is unknown to a downstream service
  (AbsentWorlds \X {Call(e, AllClients, {}, TRUE, TRUE, f) :
                      e \in {"DIFF", "SINGLE"}, f \in AbsentFaults})
  \cup
  \* the listing of the organisation members of the password service fails
  \* in a differential run that reaches the password reconciler
  (FaultWorlds \X {Call("DIFF", AllClients, {"authentik", "brevo", "nocodb"},
                        TRUE, TRUE, [api |-> "vw_members", user |-> "*"])})
  \cup
  \* the password service answers the invitation of one user with 400 or 401
  (InviteWorlds \X {Call(e, AllClients, {}, TRUE, TRUE, f) :
                      e \in {"DIFF", "SINGLE"}, f \in InviteFaults})
  \cup
  \* the chat client or the team id is missing, or the mode is unknown
  (SmallWorlds \X {Call(e, AllClients, {}, m, t, NoFault) :
                     e \in Entries \cup {"BOGUS"}, m \in BOOLEAN, t \in BOOLEAN})

NoContext ==
  [entities |-> <<>>, groups |-> <<>>, std |-> <<>>, adm |-> <<>>,
   mmu |-> <<>>, members |-> <<>>]
NoReturn == [set |-> FALSE, ok |-> FALSE, results |-> <<>>]
Return(ok, res) == [set |-> TRUE, ok |-> ok, results |-> res]
Downstream == [auth |-> auth, outline |-> outline, brevo |-> brevo,
               nocodb |-> nocodb, vault |-> vault]

\* no name is being resolved
NoProbe ==
  [pattern |-> <<>>, base_name |-> <<>>, name |-> <<>>, at |-> "off",
   base |-> None, m |-> NoMatch, entities |-> <<>>]

\* the engine before its first run, in the world and with the call of p
Boot(p) ==
    LET w == p[1]
    IN /\ cfg = p[2] @@ [excluded |-> w.excluded]
       /\ chan = [c \in {StdChannel.id, AdmChannel.id} |->
                    IF c = StdChannel.id
                    THEN w.std \cup (IF w.bot THEN {Bot} ELSE {})
                    ELSE w.adm]
       /\ auth = [g \in (IF w.admExists THEN {StdGroup, AdmGroup} ELSE {StdGroup})
                    |-> IF g = StdGroup THEN w.pre ELSE w.preAdm]
       /\ outline = [u \in Users |->
                       IF u \in w.pre
                       THEN Matrix[EntityKey].outline.default_access ELSE "none"]
       /\ brevo = {Lower(SvcEmail(u)) : u \in w.pre}
       /\ nocodb = [u \in Users |->
                      IF u \in w.pre
                      THEN Matrix[EntityKey].nocodb.default_access ELSE "none"]
       /\ vault = w.pre
       /\ snap = [auth |-> auth, outline |-> outline, brevo |-> brevo,
                  nocodb |-> nocodb, vault |-> vault]
       /\ ctx = NoContext
       /\ pc = "idle" /\ ent = 1 /\ svc = 1
       /\ results = <<>> /\ ops = <<>> /\ calls = <<>> /\ exc = ""
       /\ ret = NoReturn /\ run = 0

\* no directory is being fetched
NoPager ==
  [n |-> 0, page_of |-> <<>>, beyond |-> "", at |-> "off",
   current_url |-> <<>>, email_to_pk_map |-> {}, result |-> {}]

Init == \E p \in Starts : Boot(p) /\ probe = NoProbe /\ pager = NoPager

(***************************************************************************)
(* libraries/group_sync_services.py: the upsert entry point                *)
(***************************************************************************)
CanStart == pc \in {"idle", "done", "raised"} /\ run < MaxRuns
\* a run starts: its locals are fresh
StartRun ==
  /\ run' = run + 1
  /\ snap' = Downstream
  /\ results' = <<>> /\ ops' = <<>> /\ calls' = <<>> /\ exc' = ""
  /\ ent' = 1 /\ svc' = 1

\* the distinct entities of a list of name matches, in order of discovery
RECURSIVE Distinct(_)
Distinct(ms) ==
  IF ms = <<>> THEN <<>>
  ELSE LET d == Distinct(SubSeq(ms, 1, Len(ms) - 1))
           m == ms[Len(ms)]
           e == [key |-> m.key, base |-> m.base.val]
       IN IF Mapped(m) /\ e \notin Range(d) THEN Append(d, e) ELSE d

\* entities discovered from the identity provider's groups
EntitiesFromGroups(groups) ==
  Distinct([i \in DOMAIN groups |->
              map_auth_group_to_entity_and_base_name(groups[i].name)])
\* entities discovered from the team's channels
EntitiesFromChannels(channels) ==
  Distinct([i \in DOMAIN channels |->
              map_mm_channel_to_entity_and_base_name(channels[i].name,
                                                     channels[i].display_name)])

InvalidMode ==
  Rec("ORCHESTRATOR", <<"N/A">>, "", NoSubject, "FAILURE", "INVALID_SYNC_MODE")

\* orchestrate_group_synchronization up to the loop over the entities
OrchestrateStart ==
  /\ CanStart
  /\ cfg.entry \in {"WITH_AUTHENTIK", "MM_TO_TOOLS", "BOGUS"}
  /\ StartRun
  /\ LET groups == IF "authentik" \in cfg.clients
                   THEN get_groups_with_users(auth).groups ELSE <<>>
         entities == IF cfg.entry = "WITH_AUTHENTIK"
                     THEN EntitiesFromGroups(groups)
                     ELSE EntitiesFromChannels(get_channels_for_team)
     IN IF cfg.entry \notin {"MM_TO_TOOLS", "WITH_AUTHENTIK"}
        THEN /\ ret' = Return(FALSE, <<InvalidMode>>)
             /\ pc' = "done" /\ ctx' = NoContext
        ELSE IF ~cfg.mm_client \/ ~cfg.team_id
        THEN /\ ret' = Return(FALSE, <<>>)
             /\ pc' = "done" /\ ctx' = NoContext
        ELSE IF entities = <<>>
        \* no channel listed, or nothing that maps to an entity
        THEN /\ ret' = Return(TRUE, <<>>)
             /\ pc' = "done" /\ ctx' = NoContext
        ELSE /\ ret' = NoReturn
             /\ pc' = "entity"
             /\ ctx' = [NoContext EXCEPT !.entities = entities, !.groups = groups]
  /\ UNCHANGED <<world, downstream>>

\* the head of the loop body: the entity's channels and their members
PrepareEntity ==
  /\ pc = "entity" /\ ent <= Len(ctx.entities)
  /\ LET e == ctx.entities[ent]
         eu == EntityUsers(e.base, Matrix[e.key],
                           LAMBDA ch : get_users_in_channel(ch.id))
     IN ctx' = [ctx EXCEPT !.std = eu.std, !.adm = eu.adm,
                           !.mmu = eu.mm_users_for_services]
  /\ pc' = "services" /\ svc' = 1
  /\ UNCHANGED <<world, downstream, snap, ent, results, ops, calls, exc, ret, run>>

\* "if service.client and service.SERVICE_NAME.lower() not in skip_services"
Active(i) ==
  LowerName(Services[i]) \in cfg.clients /\ LowerName(Services[i]) \notin cfg.skip
At(where, name) == pc = where /\ svc <= Len(Services) /\ Services[svc] = name

\* what a reconciler call leaves behind in its caller
Returned(r) ==
  /\ results' = IF r.raised THEN results ELSE results \o r.res
  /\ ops' = ops \o r.ops
  /\ calls' = Append(calls, Services[svc])
  /\ exc' = IF r.raised THEN Services[svc] ELSE exc
  /\ pc' = IF r.raised THEN "raised" ELSE pc
  /\ svc' = IF r.raised THEN svc ELSE svc + 1
  /\ UNCHANGED <<world, snap, ctx, ent, ret, run>>

\* a service without client, or a skipped one, is passed over
SkipService ==
  /\ pc \in {"services", "single"} /\ svc <= Len(Services) /\ ~Active(svc)
  /\ svc' = svc + 1
  /\ UNCHANGED <<world, downstream, snap, ctx, pc, ent, results, ops, calls, exc,
                 ret, run>>

\* service.group_sync of the identity provider; the fetch of the account
\* directory ends with an error, or goes on for ever
AuthentikGroupSync ==
  /\ At("services", "AUTHENTIK") /\ Active(svc)
  /\ \E fetch \in {"error", "endless"} :
       IF fetch = "endless"
       THEN /\ pc' = "hung"
            /\ calls' = Append(calls, Services[svc])
            /\ UNCHANGED <<world, downstream, snap, ctx, ent, svc, results, ops,
                           exc, ret, run>>
       ELSE LET e == ctx.entities[ent]
                r == authentik_group_sync(Begin(auth), e.base, Matrix[e.key],
                                          ctx.groups, ctx.std, ctx.adm)
            IN /\ auth' = r.m
               /\ Returned(r)
               /\ UNCHANGED <<outline, brevo, nocodb, vault>>

\* service.group_sync of a reconciler that takes nine arguments, called with
\* eight: the call raises TypeError before the reconciler runs
NineArgsGroupSync ==
  /\ pc = "services" /\ svc <= Len(Services) /\ Active(svc)
  /\ LowerName(Services[svc]) \in NineArgs
  /\ Returned(Raise(Begin(<<>>)))
  /\ UNCHANGED downstream

BrevoGroupSync ==
  /\ At("services", "BREVO") /\ Active(svc)
  /\ LET e == ctx.entities[ent]
         r == brevo_group_sync(Begin(brevo), e.base, Matrix[e.key], ctx.std)
     IN brevo' = r.m /\ Returned(r)
  /\ UNCHANGED <<auth, outline, nocodb, vault>>

NocodbGroupSync ==
  /\ At("services", "NOCODB") /\ Active(svc)
  /\ LET e == ctx.entities[ent]
         r == nocodb_group_sync(Begin(nocodb), e.base, Matrix[e.key], ctx.mmu,
                                e.key)
     IN nocodb' = r.m /\ Returned(r)
  /\ UNCHANGED <<auth, outline, brevo, vault>>

\* the end of the loop over the services: the next entity
NextEntity ==
  /\ pc = "services" /\ svc > Len(Services)
  /\ pc' = "entity" /\ ent' = ent + 1
  /\ UNCHANGED <<world, downstream, snap, ctx, svc, results, ops, calls, exc,
                 ret, run>>

OrchestrateReturn ==
  /\ pc = "entity" /\ ent > Len(ctx.entities)
  /\ ret' = Return(TRUE, results)
  /\ pc' = "done"
  /\ UNCHANGED <<world, downstream, snap, ctx, ent, svc, results, ops, calls,
                 exc, run>>

(***************************************************************************)
(* libraries/group_sync_services.py: the differential entry point          *)
(***************************************************************************)
\* mm_channel_members: the members of every channel that maps to an entity
Prefetch(channels) ==
  LET mapped == {i \in DOMAIN channels :
                   Mapped(map_mm_channel_to_entity_and_base_name(
                            channels[i].name, channels[i].display_name))}
  IN [id \in {channels[i].id : i \in mapped} |-> get_users_in_channel(id)]

\* differential_sync up to the loop over the services
DifferentialStart ==
  /\ CanStart
  /\ cfg.entry = "DIFF"
  /\ StartRun
  /\ IF ~cfg.mm_client \/ ~cfg.team_id
     THEN /\ ret' = Return(FALSE, <<>>)
          /\ pc' = "done" /\ ctx' = NoContext
     ELSE /\ ret' = NoReturn
          /\ pc' = "diff"
          /\ ctx' = [NoContext EXCEPT !.members = Prefetch(get_channels_for_team)]
  /\ UNCHANGED <<world, downstream>>

DifferentialSkipService ==
  /\ pc = "diff" /\ svc <= Len(Services) /\ ~Active(svc)
  /\ svc' = svc + 1
  /\ UNCHANGED <<world, downstream, snap, ctx, pc, ent, results, ops, calls, exc,
                 ret, run>>

AuthentikDifferentialSync ==
  /\ At("diff", "AUTHENTIK") /\ Active(svc)
  /\ LET r == authentik_differential_sync(Begin(auth), ctx.members)
     IN auth' = r.m /\ Returned(r)
  /\ UNCHANGED <<outline, brevo, nocodb, vault>>

OutlineDifferentialSync ==
  /\ At("diff", "OUTLINE") /\ Active(svc)
  /\ LET r == outline_differential_sync(Begin(outline), ctx.members)
     IN outline' = r.m /\ Returned(r)
  /\ UNCHANGED <<auth, brevo, nocodb, vault>>

BrevoDifferentialSync ==
  /\ At("diff", "BREVO") /\ Active(svc)
  /\ LET r == brevo_differential_sync(Begin(brevo), ctx.members)
     IN brevo' = r.m /\ Returned(r)
  /\ UNCHANGED <<auth, outline, nocodb, vault>>

NocodbDifferentialSync ==
  /\ At("diff", "NOCODB") /\ Active(svc)
  /\ LET r == nocodb_differential_sync(Begin(nocodb), ctx.members)
     IN nocodb' = r.m /\ Returned(r)
  /\ UNCHANGED <<auth, outline, brevo, vault>>

VaultwardenDifferentialSync ==
  /\ At("diff", "VAULTWARDEN") /\ Active(svc)
  /\ LET r == vaultwarden_differential_sync(Begin(vault), ctx.members)
     IN vault' = r.m /\ Returned(r)
  /\ UNCHANGED <<auth, outline, brevo, nocodb>>

DifferentialReturn ==
  /\ pc = "diff" /\ svc > Len(Services)
  /\ ret' = Return(TRUE, results)
  /\ pc' = "done"
  /\ UNCHANGED <<world, downstream, snap, ctx, ent, svc, results, ops, calls,
                 exc, run>>

(***************************************************************************)
(* Each reconciler's upsert of one resource, called on its own with the    *)
(* members of the entity's channels and, for the identity provider, the    *)
(* directory of all accounts (app/tests/test_group_sync_services.py)       *)
(***************************************************************************)
SingleStart ==
  /\ CanStart
  /\ cfg.entry = "SINGLE"
  /\ StartRun
  /\ LET eu == EntityUsers(BaseName, Matrix[EntityKey],
                           LAMBDA ch : get_users_in_channel(ch.id))
     IN ctx' = [NoContext EXCEPT
                  !.entities = <<[key |-> EntityKey, base |-> BaseName]>>,
                  !.groups = get_groups_with_users(auth).groups,
                  !.std = eu.std, !.adm = eu.adm,
                  !.mmu = eu.mm_users_for_services]
  /\ ret' = NoReturn
  /\ pc' = "single"
  /\ UNCHANGED <<world, downstream>>

\* _sync_single_authentik_group of the standard then of the admin group
SingleAuthentik ==
  /\ At("single", "AUTHENTIK") /\ Active(svc)
  /\ LET Sync(s, name, mm_users) ==
           IF GroupByName(ctx.groups, name) = NoGroup THEN s
           ELSE sync_single_authentik_group(s, GroupByName(ctx.groups, name),
                                            mm_users, AuthDirectory)
         r == Sync(Sync(Begin(auth), StdGroup, ctx.std), AdmGroup, ctx.adm)
     IN auth' = r.m /\ Returned(r)
  /\ UNCHANGED <<outline, brevo, nocodb, vault>>

SingleOutline ==
  /\ At("single", "OUTLINE") /\ Active(svc)
  /\ LET r == outline_group_sync(Begin(outline), BaseName, Matrix[EntityKey],
                                 ctx.mmu)
     IN outline' = r.m /\ Returned(r)
  /\ UNCHANGED <<auth, brevo, nocodb, vault>>

SingleBrevo ==
  /\ At("single", "BREVO") /\ Active(svc)
  /\ LET r == sync_single_brevo_list(Begin(brevo), BrevoList, ctx.std)
     IN brevo' = r.m /\ Returned(r)
  /\ UNCHANGED <<auth, outline, nocodb, vault>>

SingleNocodb ==
  /\ At("single", "NOCODB") /\ Active(svc)
  /\ LET c == Matrix[EntityKey].nocodb
         r == sync_single_nocodb_base(Begin(nocodb), c.base_title_pattern,
                BaseName, ctx.mmu, c.default_access, c.admin_access)
     IN nocodb' = r.m /\ Returned(r)
  /\ UNCHANGED <<auth, outline, brevo, vault>>

SingleVaultwarden ==
  /\ At("single", "VAULTWARDEN") /\ Active(svc)
  /\ LET r == vaultwarden_group_sync(Begin(vault), BaseName, Matrix[EntityKey],
                                     ctx.mmu)
     IN vault' = r.m /\ Returned(r)
  /\ UNCHANGED <<auth, outline, brevo, nocodb>>

SingleReturn ==
  /\ pc = "single" /\ svc > Len(Services)
  /\ ret' = Return(TRUE, results)
  /\ pc' = "done"
  /\ UNCHANGED <<world, downstream, snap, ctx, ent, svc, results, ops, calls,
                 exc, run>>

Next ==
  \/ OrchestrateStart
  \/ PrepareEntity
  \/ SkipService
  \/ AuthentikGroupSync
  \/ NineArgsGroupSync
  \/ BrevoGroupSync
  \/ NocodbGroupSync
  \/ NextEntity
  \/ OrchestrateReturn
  \/ DifferentialStart
  \/ DifferentialSkipService
  \/ AuthentikDifferentialSync
  \/ OutlineDifferentialSync
  \/ BrevoDifferentialSync
  \/ NocodbDifferentialSync
  \/ VaultwardenDifferentialSync
  \/ DifferentialReturn
  \/ SingleStart
  \/ SingleAuthentik
  \/ SingleOutline
  \/ SingleBrevo
  \/ SingleNocodb
  \/ SingleVaultwarden
  \/ SingleReturn

Spec == Init /\ [][Next]_vars

(***************************************************************************)
(* The pattern resolver on its own: a pattern and a base name are drawn,   *)
(* the name is rendered, and the rendered name is given to the extraction, *)
(* to the lookups and to the discovery loops                               *)
(***************************************************************************)
MaxLen == 3
ProbeAlphabet == {"X", "_", "m", " ", "M"}
ProbeStrings == UNION {[1..k -> ProbeAlphabet] : k \in 0..MaxLen}
PatternFields ==
  {"mattermost_channel_name_pattern", "authentik_group_name_pattern",
   "collection_name_pattern", "list_name_pattern", "base_title_pattern"}
\* every name pattern of the permissions matrix
MatrixPatterns ==
  {Matrix[t[1]][t[2]][t[3]] :
     t \in {x \in Range(MatrixOrder) \X {"standard", "admin", "outline", "brevo",
                                          "nocodb", "vaultwarden"} \X PatternFields :
              x[2] \in DOMAIN Matrix[x[1]] /\ x[3] \in DOMAIN Matrix[x[1]][x[2]]}}
QuietStart ==
  <<CHOOSE w \in SmallWorlds : ~w.bot /\ w.pre = {},
    Call("MM_TO_TOOLS", AllClients, {}, TRUE, TRUE, NoFault)>>

InitResolver ==
  /\ Boot(QuietStart)
  /\ pager = NoPager
  /\ \E pattern \in MatrixPatterns, base_name \in ProbeStrings :
       probe = [NoProbe EXCEPT !.pattern = pattern, !.base_name = base_name,
                               !.at = "input"]

\* pattern.format(base_name=base_name)
RenderName ==
  /\ probe.at = "input"
  /\ probe' = [probe EXCEPT !.name = Format(probe.pattern, probe.base_name),
                            !.at = "rendered"]
  /\ UNCHANGED <<engine, pager>>

\* _extract_base_name(name, pattern)
ExtractBaseName ==
  /\ probe.at = "rendered"
  /\ probe' = [probe EXCEPT !.base = extract_base_name(probe.name, probe.pattern),
                            !.at = "extracted"]
  /\ UNCHANGED <<engine, pager>>

\* the body of the WITH_AUTHENTIK discovery loop on a group of that name
DiscoverFromGroup ==
  /\ probe.at = "rendered"
  /\ probe' = [probe EXCEPT
                 !.m = map_auth_group_to_entity_and_base_name(probe.name),
                 !.entities = EntitiesFromGroups(<<[name |-> probe.name]>>),
                 !.at = "group"]
  /\ UNCHANGED <<engine, pager>>

\* the body of the MM_TO_TOOLS discovery loop on a channel of that display
\* name, whose slug is the slug of the name
DiscoverFromChannel ==
  /\ probe.at = "rendered"
  /\ probe' = [probe EXCEPT
                 !.m = map_mm_channel_to_entity_and_base_name(slugify(probe.name),
                                                              probe.name),
                 !.entities = EntitiesFromChannels(
                                <<[name |-> slugify(probe.name),
                                   display_name |-> probe.name]>>),
                 !.at = "channel"]
  /\ UNCHANGED <<engine, pager>>

NextResolver ==
  \/ RenderName
  \/ ExtractBaseName
  \/ DiscoverFromGroup
  \/ DiscoverFromChannel

SpecResolver == InitResolver /\ [][NextResolver]_vars

(***************************************************************************)
(* clients/authentik_client.py: get_all_users_pk_by_email on its own, over *)
(* a directory of accounts that the identity provider serves in pages      *)
(***************************************************************************)
MaxPages == 3
\* the accounts of the directory: the users, and an account without email
Accounts == Users \cup {Bot}
AccountEmail(u) == IF u = Bot THEN <<>> ELSE AuthEmail(u)
\* the URL of the first request, and the URL built from pagination.next
UsersUrl == <<"/api/v3/core/users/">>
PageUrl(next_page) == <<"/api/v3/core/users/", "?page=", next_page, "&path=users">>
PageNumber(url) == IF url = UsersUrl THEN 1 ELSE url[3]
\* the answer to a request for page p of a directory of n pages: the accounts
\* of the page and pagination.next, which is 0 on the last page
PageAnswer(p, n, page_of) ==
  [results |-> ListOf({u \in Accounts : page_of[u] = p}, UserOrder),
   next |-> IF p < n THEN p + 1 ELSE 0]
\* whether the request succeeds: a page that exists is served; for a page
\* number that does not exist the provider either answers 404 or serves its
\* first page
Served(url, n, beyond) == PageNumber(url) \in 1..n \/ beyond = "first_page"
Answer(url, n, page_of) ==
  IF PageNumber(url) \in 1..n THEN PageAnswer(PageNumber(url), n, page_of)
  ELSE PageAnswer(1, n, page_of)
\* the loop body's update of email_to_pk_map with the users of a page
WithPage(map, page_users) ==
  LET fresh == {[email |-> Lower(AccountEmail(page_users[i])), pk |-> page_users[i]] :
                  i \in {j \in DOMAIN page_users : AccountEmail(page_users[j]) # <<>>}}
  IN {e \in map : \A f \in fresh : f.email # e.email} \cup fresh
\* the map of all accounts that have an email
DirectoryMap == {[email |-> Lower(AccountEmail(u)), pk |-> u] : u \in Users}

InitPages ==
  /\ Boot(QuietStart) /\ probe = NoProbe
  /\ \E n \in 1..MaxPages, beyond \in {"not_found", "first_page"} :
       \E page_of \in [Accounts -> 1..n] :
         pager = [NoPager EXCEPT !.n = n, !.page_of = page_of,
                                 !.beyond = beyond, !.at = "loop",
                                 !.current_url = UsersUrl]

\* one turn of "while current_url" whose request succeeds
FetchPage ==
  /\ pager.at = "loop" /\ pager.current_url # <<>>
  /\ Served(pager.current_url, pager.n, pager.beyond)
  /\ LET data == Answer(pager.current_url, pager.n, pager.page_of)
     IN pager' = [pager EXCEPT
                    !.email_to_pk_map = WithPage(@, data.results),
                    !.current_url = PageUrl(data.next)]
  /\ UNCHANGED <<engine, probe>>
\* one turn whose request raises RequestException: the empty map is returned
FetchFails ==
  /\ pager.at = "loop" /\ pager.current_url # <<>>
  /\ ~Served(pager.current_url, pager.n, pager.beyond)
  /\ pager' = [pager EXCEPT !.at = "returned", !.result = {}]
  /\ UNCHANGED <<engine, probe>>

NextPages ==
  \/ FetchPage
  \/ FetchFails

SpecPages == InitPages /\ [][NextPages]_vars /\ WF_vars(NextPages)

TypeOK ==
  /\ pc \in {"idle", "entity", "services", "diff", "single", "done", "raised",
             "hung"}
  /\ run \in 0..MaxRuns
  /\ svc \in 1..(Len(Services) + 1)

(***************************************************************************)
(* Properties of the runs                                                  *)
(***************************************************************************)
UpsertEntries == {"WITH_AUTHENTIK", "MM_TO_TOOLS", "SINGLE"}
OrchestratedEntries == {"WITH_AUTHENTIK", "MM_TO_TOOLS", "DIFF"}
ChannelUsers == (chan[StdChannel.id] \cup chan[AdmChannel.id]) \cap Users
ActiveServices == {LowerName(Services[i]) : i \in {k \in DOMAIN Services : Active(k)}}
ActiveInOrder == SelectSeq(Services, LAMBDA x : LowerName(x) \in ActiveServices)

\* the kinds of action tags
DmSuffixes == {"_AND_DM_SENT", "_DM_FAILED", "_DM_SKIPPED_INCOMPLETE_COLL_DETAILS"}
AddedActions ==
  {"USER_ADDED_TO_AUTHENTIK_GROUP"}
  \cup {"USER_ADDED_TO_OUTLINE_COLLECTION_WITH_" \o p \o "_ACCESS" \o x :
          p \in {"READ", "READ_WRITE"}, x \in DmSuffixes}
RemovedActions ==
  {"USER_REMOVED_FROM_AUTHENTIK_GROUP", "USER_REMOVED_FROM_OUTLINE_COLLECTION",
   "NOCODB_USER_REMOVED_FROM_BASE", "USER_REMOVED_FROM_VAULTWARDEN_COLLECTION"}
UpdatedActions ==
  {"NOCODB_USER_ROLE_UPDATED_TO_" \o p : p \in {"VIEWER", "OWNER"}}
InvitedActions ==
  {"NOCODB_USER_INVITED_AS_" \o p \o x :
     p \in {"VIEWER", "OWNER"}, x \in {"_AND_DM_SENT", "_DM_FAILED"}}
  \cup {"USER_INVITED_TO_VW_COLLECTION_AND_DM_SENT",
        "USER_INVITED_TO_VW_COLLECTION_DM_FAILED"}
AlreadyActions ==
  {"USER_ALREADY_IN_AUTHENTIK_GROUP",
   "USER_ALREADY_IN_OUTLINE_COLLECTION_PERMISSION_ENSURED",
   "NOCODB_USER_ALREADY_IN_BASE_WITH_CORRECT_ROLE"}
ChangeActions ==
  AddedActions \cup RemovedActions \cup UpdatedActions \cup InvitedActions

\* the record is about the user: by its username or by its email
IsSubject(r, u) == r.username = u \/ Lower(r.subject) = Lower(MmEmail(u))

\* the members of each downstream resource in a state d of the services
MembersIn(d) ==
  [outline |-> OutlineMembers(d.outline),
   brevo |-> {u \in Users : Lower(SvcEmail(u)) \in d.brevo},
   nocodb |-> NocoMembers(d.nocodb),
   vaultwarden |-> d.vault]

\* C1: in every run, upsert or differential, no result record about an
\* excluded user carries an action of the added, removed, updated or invited
\* kind.
C1_ExcludedNeverChanged ==
  \A i \in DOMAIN results : \A u \in cfg.excluded :
    IsSubject(results[i], u) => results[i].action \notin ChangeActions

\* C2: when a differential run ends, every excluded user who held access in a
\* downstream resource when the run began still holds it, and no removal was
\* issued for that user.
C2_ExcludedPreserved ==
  (cfg.entry = "DIFF" /\ pc = "done") =>
    \A u \in cfg.excluded :
      /\ \A g \in DOMAIN snap.auth : u \in snap.auth[g] => u \in auth[g]
      /\ \A s \in DOMAIN MembersIn(snap) :
           u \in MembersIn(snap)[s] => u \in MembersIn(Downstream)[s]
      /\ \A i \in DOMAIN ops : ~(ops[i].op = "remove" /\ ops[i].user = u)

\* C3: after a differential run that completed successfully (it returned
\* true, no call failed, no record is a failure), in the resource of every
\* configured service a user who is not excluded is a member exactly when the
\* user is in the entity's channels, and an excluded user who was a member
\* still is one.
C3_DifferentialConverges ==
  (cfg.entry = "DIFF" /\ pc = "done" /\ ret.ok /\ cfg.fault = NoFault
     /\ \A i \in DOMAIN results : results[i].status # "FAILURE") =>
    \A s \in DOMAIN MembersIn(snap) \cap ActiveServices :
      /\ MembersIn(Downstream)[s] \ cfg.excluded = ChannelUsers \ cfg.excluded
      /\ MembersIn(snap)[s] \cap cfg.excluded \subseteq MembersIn(Downstream)[s]

C5_SecondUpsertOnlyAlready ==
  (cfg.entry \in UpsertEntries /\ run = 2 /\ cfg.fault = NoFault) =>
    \A i \in DOMAIN results :
      /\ results[i].status = "SUCCESS" => results[i].action \in AlreadyActions
      /\ results[i].action
           \notin AddedActions \cup InvitedActions \cup UpdatedActions

C7_ExceptionBecomesFailureRecord ==
  (cfg.entry \in OrchestratedEntries /\ exc # "") =>
    /\ pc # "raised"
    /\ \E i \in DOMAIN results :
         results[i].service = exc /\ results[i].status = "FAILURE"

\* C8: no call of a reconciler's upsert or differential sync raises, whatever
\* the external calls return.
C8_NoExceptionEscapes == exc = ""

\* C9: when an upsert run of the orchestrator over a discovered entity is
\* over, the reconcilers it invoked are exactly the configured ones that are
\* not skipped, in order, and the run returned the records they produced.
C9_ConfiguredReconcilersInvoked ==
  (cfg.entry \in {"WITH_AUTHENTIK", "MM_TO_TOOLS"} /\ pc \in {"done", "raised"}
     /\ ctx.entities # <<>>) =>
    /\ calls = ActiveInOrder
    /\ ret.set /\ ret.results = results

\* C10: when the chat client or the team id is missing, or the chat platform
\* cannot be reached, a run of either entry point returns (false, []).
C10_FatalErrorsReturnFalseEmpty ==
  (cfg.entry \in OrchestratedEntries /\ pc = "done"
     /\ (~cfg.mm_client \/ ~cfg.team_id \/ Fails("mm_down"))) =>
    ret = Return(FALSE, <<>>)

\* the records of a service about a user and a resource
RecordsAbout(service, target, u) ==
  {i \in DOMAIN results : /\ results[i].service = service
                          /\ results[i].target = target
                          /\ IsSubject(results[i], u)}
\* the channel whose members a group of the identity provider is compared with
ChannelOfGroup(g) == IF g = AdmGroup THEN AdmChannel.id ELSE StdChannel.id

\* C11: when a differential run in which no call fails is over, the identity
\* provider's reconciler has emitted exactly one record for every group and
\* every user it considered (a member of the group when the run began or a
\* member of the group's channel, not excluded): a retained member has its
\* own record just as a removed member has one.
C11_OneRecordPerSubject ==
  (cfg.entry = "DIFF" /\ pc = "done" /\ cfg.fault = NoFault
     /\ "AUTHENTIK" \in Range(calls)) =>
    \A g \in DOMAIN snap.auth :
      \A u \in (snap.auth[g] \cup chan[ChannelOfGroup(g)]) \ cfg.excluded :
        Cardinality(RecordsAbout("AUTHENTIK", g, u)) = 1

\* the action tags that name the default and the admin permission or role
DefaultTagged ==
  {"USER_ADDED_TO_OUTLINE_COLLECTION_WITH_READ_ACCESS" \o x : x \in DmSuffixes}
  \cup {"NOCODB_USER_INVITED_AS_VIEWER" \o x : x \in {"_AND_DM_SENT", "_DM_FAILED"}}
  \cup {"NOCODB_USER_ROLE_UPDATED_TO_VIEWER"}
AdminTagged ==
  {"USER_ADDED_TO_OUTLINE_COLLECTION_WITH_READ_WRITE_ACCESS" \o x : x \in DmSuffixes}
  \cup {"NOCODB_USER_INVITED_AS_OWNER" \o x : x \in {"_AND_DM_SENT", "_DM_FAILED"}}
  \cup {"NOCODB_USER_ROLE_UPDATED_TO_OWNER"}
\* the permission or role the user holds in the resource of a service
HeldIn(service, u) == IF service = "OUTLINE" THEN outline[u] ELSE nocodb[u]
AdminAccessOf(service) ==
  IF service = "OUTLINE" THEN Matrix[EntityKey].outline.admin_access
  ELSE Matrix[EntityKey].nocodb.admin_access

\* the users the chat client lists as members of a channel
ListedIn(channel_id) ==
  {get_users_in_channel(channel_id)[i].username :
     i \in DOMAIN get_users_in_channel(channel_id)}
InBothChannels == ListedIn(StdChannel.id) \cap ListedIn(AdmChannel.id)

\* C12: for a user listed in both the standard and the admin channel of the
\* entity, no record of a service with permissions or roles (Outline,
\* NocoDB) names the default permission or role, and every SUCCESS record of
\* such a service about the user leaves the user with the admin permission or
\* role.
C12_BothChannelsGetAdmin ==
  \A u \in InBothChannels :
    \A i \in DOMAIN results :
      (results[i].service \in {"OUTLINE", "NOCODB"} /\ IsSubject(results[i], u)) =>
        /\ results[i].action \notin DefaultTagged
        /\ results[i].status = "SUCCESS" =>
             HeldIn(results[i].service, u) = AdminAccessOf(results[i].service)
\* a run is over in which a member of both channels was added to the Outline
\* collection and another record updated the user's role in the NocoDB base
C12_Witness ==
  /\ pc = "done"
  /\ \E u \in InBothChannels :
       /\ \E i \in DOMAIN results :
            /\ results[i].service = "OUTLINE" /\ IsSubject(results[i], u)
            /\ results[i].action \in AdminTagged
       /\ \E i \in DOMAIN results :
            /\ results[i].service = "NOCODB" /\ IsSubject(results[i], u)
            /\ results[i].action = "NOCODB_USER_ROLE_UPDATED_TO_OWNER"

\* the authoritative membership of the entity in the current run: the
\* orchestrator's mm_users_for_services in upsert mode, what the reconcilers
\* get from get_mm_users_for_entity in differential mode
AuthoritativeSet ==
  IF pc = "diff"
  THEN get_mm_users_for_entity(BaseName, Matrix[EntityKey],
                               ctx.members).mm_users_for_services
  ELSE ctx.mmu

\* C13: in upsert and in differential mode, no entry of the authoritative
\* membership set built for the entity carries the username of an excluded
\* user.
C13_ExcludedNotInMembership ==
  \A i \in DOMAIN AuthoritativeSet :
    AuthoritativeSet[i].username \notin cfg.excluded

\* C14: no result record has status SUCCESS together with an empty or absent
\* subject identifier ("mm_user_email").
C14_SuccessHasSubject ==
  \A i \in DOMAIN results :
    results[i].status = "SUCCESS" => results[i].subject \notin {<<>>, NoSubject}

\* the chat accounts without email that the chat client lists in a channel of
\* the entity
ListedWithoutEmail ==
  {u \in ListedIn(StdChannel.id) \cup ListedIn(AdmChannel.id) : MmEmail(u) = <<>>}

\* C15: every key of the authoritative membership set is a non-empty
\* lower-case email, and when a run in which reconcilers were invoked and no
\* call failed is over, every channel member without email is absent from
\* the set and has a SKIPPED record of its own.
C15_LowercaseKeysEmptyEmailSkipped ==
  /\ \A i \in DOMAIN AuthoritativeSet :
       /\ AuthoritativeSet[i].email # <<>>
       /\ AuthoritativeSet[i].email = Lower(AuthoritativeSet[i].email)
       /\ AuthoritativeSet[i].username \notin ListedWithoutEmail
  /\ (pc = "done" /\ ret.ok /\ cfg.fault = NoFault /\ calls # <<>>) =>
       \A u \in ListedWithoutEmail \ cfg.excluded :
         \E i \in DOMAIN results :
           results[i].username = u /\ results[i].status = "SKIPPED"

\* C16: for every pattern of the matrix (each holds the placeholder once) and
\* every base name, extracting from the rendered name with the same pattern
\* gives back the base name.
C16_ExtractInvertsRender ==
  probe.at = "extracted" => probe.base = Some(probe.base_name)
\* a base name that holds the characters of the pattern's suffix was rendered
\* with a pattern that has a prefix and a suffix, and extracted again
C16_Witness ==
  /\ probe.at = "extracted"
  /\ PatPrefix(probe.pattern) # <<>> /\ PatSuffix(probe.pattern) # <<>>
  /\ EndsWith(probe.base_name, PatSuffix(probe.pattern))
  /\ probe.base = Some(probe.base_name)

\* what the admin and the standard pattern of the j-th kind extract from a name
AdminOf(j, name, field) ==
  Try(MatrixOrder[j], name, PatternOf(MatrixOrder[j], "admin", field)).base
StandardOf(j, name, field) ==
  Try(MatrixOrder[j], name, PatternOf(MatrixOrder[j], "standard", field)).base
\* m is the answer of a lookup that goes through the kinds in matrix order and
\* prefers a kind's admin pattern to its standard pattern: there is an answer
\* when some pattern matches; an answer of a kind whose admin pattern matches
\* is the admin match, and no earlier kind has an admin match; any other
\* answer is the kind's standard match, and no earlier kind has one
AdminFirstInOrder(m, name, field) ==
  /\ m.key = "" <=>
       \A j \in DOMAIN MatrixOrder :
         ~AdminOf(j, name, field).some /\ ~StandardOf(j, name, field).some
  /\ \A j \in DOMAIN MatrixOrder :
       m.key = MatrixOrder[j] =>
         IF AdminOf(j, name, field).some
         THEN /\ m.base = AdminOf(j, name, field)
              /\ \A i \in 1..(j - 1) : ~AdminOf(i, name, field).some
         ELSE /\ m.base = StandardOf(j, name, field) /\ m.base.some
              /\ \A i \in 1..(j - 1) : ~StandardOf(i, name, field).some

C18_EmptyBaseNameIsMatch ==
  /\ (probe.at = "extracted" /\ probe.base_name = <<>>) => probe.base = Some(<<>>)
  /\ (probe.at \in {"group", "channel"} /\ probe.m.base = Some(<<>>)) =>
       probe.entities = <<[key |-> probe.m.key, base |-> <<>>]>>

\* C19: the standard group of the identity provider is synchronised against
\* the members of both channels. When an upsert run in which no call fails and
\* the identity provider's reconciler ran on existing groups is over, every
\* member of the admin channel (not excluded) is in the standard and in the
\* admin group; when such a differential run is over, every member of the
\* admin channel who was in the standard group is still in it.
C19_StandardGroupHoldsAdmins ==
  (pc = "done" /\ cfg.fault = NoFault /\ "AUTHENTIK" \in Range(calls)
     /\ AdmGroup \in DOMAIN snap.auth) =>
    \A u \in (ListedIn(AdmChannel.id) \cap Users) \ cfg.excluded :
      /\ cfg.entry \in UpsertEntries => (u \in auth[StdGroup] /\ u \in auth[AdmGroup])
      /\ cfg.entry = "DIFF" => (u \in snap.auth[StdGroup] => u \in auth[StdGroup])

\* the user has no entry in the email-to-pk map the identity provider's
\* reconciler works with in the current run
AbsentFromAuthentik(u) ==
  IF cfg.entry = "DIFF" THEN \A g \in DOMAIN snap.auth : u \notin snap.auth[g]
  ELSE cfg.entry \in {"WITH_AUTHENTIK", "MM_TO_TOOLS"}
\* the channel members a reconciler works on: listed, with an email, not
\* excluded
Considered(channels) ==
  ((UNION {ListedIn(c) : c \in channels}) \cap Users) \ cfg.excluded
SkippedAs(service, target, u, action) ==
  \E i \in DOMAIN results :
    /\ results[i].service = service /\ results[i].target = target
    /\ results[i].username = u /\ results[i].status = "SKIPPED"
    /\ results[i].action = action

\* C20: a channel member who has no account in a downstream service gets a
\* SKIPPED "user not in service" record of that service once the reconciler
\* has returned, and ends nothing: the reconciler does not raise, the other
\* members who were not in the resource are added with their own records, and
\* the run goes on to the remaining services and returns true.
C20_AbsentUserSkippedNotFatal ==
  /\ exc # "AUTHENTIK"
  /\ ("AUTHENTIK" \in Range(calls) /\ pc # "hung"
        /\ cfg.fault.api \in {"none", "outline_user"}) =>
       \A u \in Considered({StdChannel.id}) :
         AbsentFromAuthentik(u) =>
           SkippedAs("AUTHENTIK", StdGroup, u,
                     "SKIPPED_USER_NOT_IN_AUTHENTIK_FOR_ENSURE")
  /\ cfg.fault.api = "outline_user" =>
       /\ exc = ""
       /\ "OUTLINE" \in Range(calls) =>
            \A u \in {x \in Considered({StdChannel.id, AdmChannel.id}) :
                         snap.outline[x] = "none"} :
              IF u = cfg.fault.user
              THEN /\ SkippedAs("OUTLINE", OutlineColl, u,
                                "SKIPPED_USER_NOT_IN_OUTLINE_FOR_ENSURE")
                   /\ outline[u] = "none"
              ELSE /\ \E i \in RecordsAbout("OUTLINE", OutlineColl, u) :
                        results[i].status = "SUCCESS"
                   /\ outline[u] # "none"
       /\ pc = "done" => (calls = ActiveInOrder /\ ret.ok)
\* a run is over in which one of two channel members had no account in the
\* documentation service: that member was skipped with a record, the other was
\* added, and the reconcilers after it ran
C20_Witness ==
  /\ pc = "done" /\ cfg.fault.api = "outline_user"
  /\ cfg.fault.user \in Considered({StdChannel.id})
  /\ SkippedAs("OUTLINE", OutlineColl, cfg.fault.user,
               "SKIPPED_USER_NOT_IN_OUTLINE_FOR_ENSURE")
  /\ \E u \in Users \ {cfg.fault.user} : outline[u] # "none"
  /\ "NOCODB" \in Range(calls)
  /\ \E u \in Considered({StdChannel.id}) :
       SkippedAs("AUTHENTIK", StdGroup, u,
                 "SKIPPED_USER_NOT_IN_AUTHENTIK_FOR_ENSURE")

\* the listing of the identity provider's groups returned the account of u
\* when the current run started: u was a member of some group
ListedByAuthentik(u) == \E g \in DOMAIN snap.auth : u \in snap.auth[g]

\* C21: emails are case-folded before they are used as keys or compared. Every
\* user's identity-provider email differs from the chat email in letter case
\* at most, so a channel member whose account the group listing returned is
\* never reported as having no identity-provider account.
C21_CaseFoldedEverywhere ==
  \A i \in DOMAIN results :
    (/\ results[i].service = "AUTHENTIK"
     /\ results[i].action = "SKIPPED_USER_NOT_IN_AUTHENTIK_FOR_ENSURE"
     /\ cfg.entry = "DIFF")
      => \A u \in Users :
           (results[i].username = u
            /\ Lower(AuthEmail(u)) = Lower(MmEmail(u)))
             => ~ListedByAuthentik(u)

\* the password service answers the invitation of the faulted user with 400
\* and a message holding "already a member", "already invited" or "already
\* confirmed", in any letter case
AlreadyAnswered ==
  cfg.fault.api \in {"vw_400_member", "vw_400_invited", "vw_400_confirmed"}
\* the records of the password reconciler about the invitation of u
InviteRecords(u) ==
  {i \in DOMAIN results :
     /\ results[i].service = "VAULTWARDEN" /\ results[i].username = u
     /\ results[i].status \in {"SUCCESS", "FAILURE"}}

\* C22: an invitation answered with 400 and an "already a member", "already
\* invited" or "already confirmed" message is recorded as SUCCESS with the
\* action USER_ALREADY_INVITED; an invitation answered with any other 400 is
\* recorded as FAILURE.
C22_AlreadyInvitedIsSuccess ==
  \A i \in InviteRecords(cfg.fault.user) :
    /\ AlreadyAnswered =>
         (results[i].status = "SUCCESS"
          /\ results[i].action = "USER_ALREADY_INVITED")
    /\ cfg.fault.api = "vw_400_other" => results[i].status = "FAILURE"

\* the invitation POSTs issued for u in the current run
InvitePosts(u) ==
  {i \in DOMAIN ops : /\ ops[i].service = "VAULTWARDEN"
                      /\ ops[i].op = "add" /\ ops[i].user = u}

\* C23: when the password service answers the invitation of a user with 401,
\* the token is refreshed once and the invitation is retried once, and as the
\* retry is answered with 401 too the invitation fails: a record about that
\* user is a FAILURE, and two invitation POSTs were issued for the user.
C23_RefreshOnceRetryOnce ==
  cfg.fault.api = "vw_401" =>
    \A i \in InviteRecords(cfg.fault.user) :
      /\ results[i].status = "FAILURE"
      /\ Cardinality(InvitePosts(cfg.fault.user)) = 2

\* what the upsert of the contact list of the entity does, on the contact list
\* and for the channel members of the start of the current run
BrevoAsUpsert ==
  brevo_group_sync(Begin(snap.brevo), BaseName, Matrix[EntityKey],
                   get_users_in_channel(StdChannel.id))
OfBrevo(log) == SelectSeq(log, LAMBDA x : x.service = "BREVO")

\* C24: for the contact list, differential mode does what upsert does: once
\* the mailing reconciler has returned in a differential run in which nothing
\* fails and every channel member has an email, its records and its contact
\* upserts are those of the upsert of the same list for the same channel
\* members, and no contact was removed.
C24_BrevoDifferentialAsUpsert ==
  (/\ cfg.entry = "DIFF" /\ cfg.fault = NoFault
   /\ chan[StdChannel.id] \subseteq Users
   /\ "BREVO" \in Range(calls))
    => /\ OfBrevo(results) = BrevoAsUpsert.res
       /\ OfBrevo(ops) = BrevoAsUpsert.ops
       /\ snap.brevo \subseteq brevo

\* the role the database reconciler is to give u: admin_access for a member
\* of the admin channel, default_access otherwise
TargetRole(u) ==
  IF u \in ListedIn(AdmChannel.id) THEN Matrix[EntityKey].nocodb.admin_access
  ELSE Matrix[EntityKey].nocodb.default_access
\* the write calls of kind op issued on the base for u in the current run
NocoCalls(u, op) ==
  {i \in DOMAIN ops : /\ ops[i].service = "NOCODB" /\ ops[i].op = op
                      /\ ops[i].user = u}
NocoRecords(u, actions) ==
  {i \in RecordsAbout("NOCODB", NocoBase, u) :
     results[i].status = "SUCCESS" /\ results[i].action \in actions}

\* C25: once the database reconciler has returned, in upsert and in
\* differential mode with nothing failing, every non-excluded member of the
\* entity's channels was treated by presence and role at the start of the
\* run: not a user of the base - invited with the target role; a user with
\* another role - role updated to the target role; a user with the target
\* role - an already-correct-role SUCCESS record and no write call.
C25_NocodbActionByPresenceAndRole ==
  (cfg.fault = NoFault /\ "NOCODB" \in Range(calls)) =>
    \A u \in Considered({StdChannel.id, AdmChannel.id}) :
      IF snap.nocodb[u] = "none"
      THEN NocoCalls(u, "add") # {} /\ nocodb[u] = TargetRole(u)
      ELSE IF snap.nocodb[u] # TargetRole(u)
      THEN NocoCalls(u, "update") # {} /\ nocodb[u] = TargetRole(u)
      ELSE /\ NocoRecords(u, {"NOCODB_USER_ALREADY_IN_BASE_WITH_CORRECT_ROLE"}) # {}
           /\ NocoCalls(u, "add") \cup NocoCalls(u, "update") = {}
\* the same, in upsert mode only
C25_UpsertByPresenceAndRole ==
  cfg.entry \in UpsertEntries => C25_NocodbActionByPresenceAndRole

\* the reconcilers that have a client and are not skipped, in the order of
\* the services list
ConfiguredInOrder ==
  SelectSeq(Services, LAMBDA x : LowerName(x) \in cfg.clients \ cfg.skip)
\* the channel members of the entity, as the chat client lists them
ListedUsers ==
  EntityUsers(BaseName, Matrix[EntityKey], LAMBDA ch : get_users_in_channel(ch.id))
\* what the upsert of one reconciler does for the entity, on the downstream
\* state of the start of the run; nothing in it depends on the discovery mode
UpsertOf(service, eu) ==
  CASE service = "AUTHENTIK" ->
         authentik_group_sync(Begin(snap.auth), BaseName, Matrix[EntityKey],
                              get_groups_with_users(snap.auth).groups,
                              eu.std, eu.adm)
    [] service = "BREVO" ->
         brevo_group_sync(Begin(snap.brevo), BaseName, Matrix[EntityKey], eu.std)
    [] service = "NOCODB" ->
         nocodb_group_sync(Begin(snap.nocodb), BaseName, Matrix[EntityKey],
                           eu.mm_users_for_services, EntityKey)
    [] OTHER -> Raise(Begin(<<>>))
\* the records and the write calls of the reconcilers that have returned
RECURSIVE RecordsOf(_, _)
RecordsOf(done, eu) ==
  IF done = <<>> THEN <<>>
  ELSE UpsertOf(Head(done), eu).res \o RecordsOf(Tail(done), eu)
RECURSIVE WritesOf(_, _)
WritesOf(done, eu) ==
  IF done = <<>> THEN <<>>
  ELSE UpsertOf(Head(done), eu).ops \o WritesOf(Tail(done), eu)
HaveReturned ==
  IF pc = "hung" THEN SubSeq(calls, 1, Len(calls) - 1) ELSE calls

\* C26: the discovery mode only selects the entities. Once a run started in
\* MM_TO_TOOLS mode that discovered the entity is over, every reconciler that
\* has a client and is not skipped was invoked, the identity provider's group
\* sync included, and the records and write calls are those of the upserts of
\* the reconcilers, which do not depend on the mode.
C26_ChatDiscoveryRunsAllReconcilers ==
  (/\ cfg.entry = "MM_TO_TOOLS" /\ cfg.fault = NoFault
   /\ ctx.entities # <<>> /\ pc \in {"done", "raised"})
    => /\ calls = ConfiguredInOrder
       /\ results = RecordsOf(calls, ListedUsers)
       /\ ops = WritesOf(calls, ListedUsers)
\* in both discovery modes and at every point of a run, the reconcilers
\* invoked so far are the first configured ones, and the records and write
\* calls are those of their upserts
C26_SameInBothModes ==
  (cfg.entry \in {"MM_TO_TOOLS", "WITH_AUTHENTIK"} /\ ctx.entities # <<>>)
    => /\ ctx.entities = <<[key |-> EntityKey, base |-> BaseName]>>
       /\ Len(calls) <= Len(ConfiguredInOrder)
       /\ calls = SubSeq(ConfiguredInOrder, 1, Len(calls))
       /\ results = RecordsOf(HaveReturned, ListedUsers)
       /\ ops = WritesOf(HaveReturned, ListedUsers)
       /\ (pc = "done" => calls = ConfiguredInOrder)

\* the lookup of a channel of the entity returns a channel whose members
\* were prefetched by the current differential run
Prefetched(block) ==
  /\ ChannelOf(MmPattern(EntityKey, block), BaseName) # NoChannel
  /\ ChannelOf(MmPattern(EntityKey, block), BaseName).id \in DOMAIN ctx.members
\* the write calls of the current run that remove a member
Removals == {i \in DOMAIN ops : ops[i].op = "remove"}

\* C27: a differential run removes members of a downstream resource only when
\* the channel of the resource's entity was found and its members were
\* prefetched: in a run in which the lookup of the entity's channels returns
\* nothing or their members are not in the prefetched map, no removal is
\* issued and every member of the start of the run is still a member.
C27_NoRemovalWithoutChannel ==
  (/\ cfg.entry = "DIFF" /\ pc \in {"diff", "done"}
   /\ ~Prefetched("standard") /\ ~Prefetched("admin"))
    => /\ Removals = {}
       /\ \A g \in DOMAIN snap.auth : snap.auth[g] \subseteq auth[g]
       /\ NocoMembers(snap.nocodb) \subseteq NocoMembers(nocodb)

\* C28: the password reconciler's differential sync drops a user from a
\* collection only if the user's email was resolved and is not in the
\* authoritative set: when the listing of the organisation members fails, no
\* email is resolved and every member of the start of the run is still a
\* member once the reconciler has returned.
C28_UnresolvedUsersKept ==
  (/\ cfg.entry = "DIFF" /\ Fails("vw_members")
   /\ "VAULTWARDEN" \in Range(calls))
    => snap.vault \subseteq vault

\* C29: when the admin group of the discovered entity does not exist at the
\* start of an upsert run in which nothing fails, then once the identity
\* provider's reconciler has returned the group exists, every non-excluded
\* member of the admin channel is a member of it, and a record of the
\* reconciler about the group exists for each of these members.
C29_CreatedGroupFilledInSameRun ==
  (/\ cfg.entry \in {"WITH_AUTHENTIK", "MM_TO_TOOLS"} /\ cfg.fault = NoFault
   /\ "AUTHENTIK" \in Range(calls) /\ pc # "hung"
   /\ AdmGroup \notin DOMAIN snap.auth)
    => /\ AdmGroup \in DOMAIN auth
       /\ \A u \in Considered({AdmChannel.id}) :
            /\ u \in auth[AdmGroup]
            /\ RecordsAbout("AUTHENTIK", AdmGroup, u) # {}

\* C30: building the identity provider's email-to-id map terminates: when
\* every page request succeeds, the loop over the pages of a directory of two
\* pages or more ends after the last page and the map of all accounts, keyed
\* by lower-cased email, is returned.
C30_PaginationTerminates ==
  (pager.at = "loop" /\ pager.beyond = "first_page" /\ pager.n >= 2)
    => <>(/\ pager.at = "returned"
          /\ pager.result = DirectoryMap)
\* whenever the call returns, it returns the map of all accounts
C30_ReturnsWholeMap ==
  pager.at = "returned" => pager.result = DirectoryMap

=============================================================================
